---------------------------- MODULE Spec2Model ----------------------------
(***************************************************************************)
(* A model of the conversation engine of EDU-Bot: the registry of running  *)
(* interactions (src/src/interactions.py, `current`), the command managers *)
(* that decide whether an interaction starts (src/src/managers.py), the    *)
(* step functions of the interactions, and the two tables of the store     *)
(* (chats, groups) as far as the steps read and write them.                *)
(*                                                                         *)
(* Identities.  Private chats (students) are the positive numbers          *)
(* 1..NumUsers, group chats (rooms) the negative numbers -1..-NumRooms, as  *)
(* with the transport, and group ids are built as the registration builds  *)
(* them: (edu * 100 + department) * 1000 + ordinal.  The three ranges are  *)
(* disjoint, so a key of the registry tells what it is.                    *)
(*                                                                         *)
(* Instances.  `current` maps a key to the identity of an instance and     *)
(* `inst` maps that identity to the fields of the object; several keys may *)
(* hold the same identity.  An instance no key refers to is unreachable    *)
(* for every handler and is dropped from `inst`.                           *)
(*                                                                         *)
(* `trace` is what the last handler did towards the outside: the messages  *)
(* it sent, the polls it opened or closed, and whether it called respond.  *)
(*                                                                         *)
(* Helper names that differ between the files only by a rename             *)
(* (auxiliary.str_sort_key / string_sort_key, the familiarity field of the *)
(* opt-in answer) are taken to resolve; the order of buttons in a menu is  *)
(* not part of the state.                                                  *)
(***************************************************************************)
EXTENDS Integers, Sequences, FiniteSets, TLC

VARIABLES
    chats,      \* table chats: id -> [type, language, group_id, role, familiarity]
    groups,     \* table groups: the rows in table order
    current,    \* the registry: key -> identity of an instance
    inst,       \* identity of an instance -> its fields
    trace,      \* outward effects of the last handler
    quorum,     \* configured MIN_GROUPMATES_FOR_LC
    ratio,      \* configured MAX_ADMINS_STUDENTS_RATIO as <<numerator, denominator>>
    now,        \* the clock: datetime.now(), to the minute
    left,       \* <<chat, callback data>>: buttons of a conversation that lost
                \* the chat's key to another one and are still on the screen
    reminder    \* the locals of the thread that runs remind_about_events

vars == <<chats, groups, current, inst, trace, quorum, ratio, now, left, reminder>>

-----------------------------------------------------------------------------
(* Bounds of the model *)

NumUsers == 4
NumRooms == 2
MaxQuorum == 3
MaxVotes == 4
MaxEvents == 2              \* upcoming events a group may have
NumYears == 2               \* years the clock of the model may show
MaxInfo == 2                \* blocks of info a group may have

(* Program constants *)

ORDINARY_ROLE == 0
ADMIN_ROLE == 1
LEADER_ROLE == 2
MIN_GROUPMATES_FOR_LC == 1
MAX_GROUP_NAME_LENGTH == 15
MAX_EDU_YEARS == 6

NULL == 0 - (NumRooms + 1)  \* a NULL column, an attribute that is None: no id of a chat

Users == 1..NumUsers
Rooms == {0 - r : r \in 1..NumRooms}
AllChats == Users \cup Rooms

PRIVATE == 0                \* index of Chat.PRIVATE in CHAT_TYPES
GROUP == 1

ChatType(chat) == IF chat \in Users THEN PRIVATE ELSE GROUP

(* the values MAX_ADMINS_STUDENTS_RATIO has in the two configuration files *)
RatioValues == {<<1, 1>>, <<1, 2>>}

(* inputs *)
LanguageInputs == {0, 1}    \* indices into LANGUAGES; 0 is the first language
EduIds == {1, 7}
DepartmentIds == {0, 1}
NameInputs == {"ka", "KA", "KB", "K\nA", "ABCDEFGHIJKLMNOP"}

Upper(s) == IF s = "ka" THEN "KA" ELSE s
HasNewline(s) == s = "K\nA"
NameLength(s) == IF s = "ABCDEFGHIJKLMNOP" THEN 16 ELSE IF s = "K\nA" THEN 3 ELSE 2

-----------------------------------------------------------------------------
(* Finite maps *)

Empty == [x \in {} |-> 0]
Put(f, k, v) == [x \in (DOMAIN f) \cup {k} |-> IF x = k THEN v ELSE f[x]]
Del(f, k) == [x \in (DOMAIN f) \ {k} |-> f[x]]
DelAll(f, S) == [x \in (DOMAIN f) \ S |-> f[x]]
Range(f) == {f[x] : x \in DOMAIN f}

RECURSIVE SetToSeq(_)
SetToSeq(S) ==
    IF S = {} THEN <<>>
    ELSE LET m == CHOOSE x \in S : \A y \in S : x <= y
         IN  <<m>> \o SetToSeq(S \ {m})

(* Outward effects *)
Ev(op, to, text) == [op |-> op, to |-> to, text |-> text]
Send(to, text) == Ev("send", to, text)

RECURSIVE SendAll(_, _)
SendAll(S, text) ==
    IF S = {} THEN <<>>
    ELSE LET m == CHOOSE x \in S : \A y \in S : x <= y
         IN  <<Send(m, text)>> \o SendAll(S \ {m}, text)

-----------------------------------------------------------------------------
(* The store *)

ChatRecord(type, language, group_id, role) ==
    [type |-> type, language |-> language, group_id |-> group_id,
     role |-> role, familiarity |-> {}]

GroupRecord(id, name) ==
    [id |-> id, name |-> name, info |-> <<>>, events |-> <<>>, graduation |-> NULL]

Registered == DOMAIN chats
StudentsOf(g) == {c \in Registered : chats[c].group_id = g /\ chats[c].type = PRIVATE}
RoomsOf(g) == {c \in Registered : chats[c].group_id = g /\ chats[c].type # PRIVATE}
RelatedTo(g) == {c \in Registered : chats[c].group_id = g}
WithRole(g, r) == {c \in Registered : chats[c].group_id = g /\ chats[c].role = r}
GroupIds == {groups[k].id : k \in DOMAIN groups}

(* cursor.fetchone() of a query over the rooms of a group: the first row,  *)
(* chats being keyed by id; NULL when there is none                        *)
FirstRoom(g) ==
    IF RoomsOf(g) = {} THEN NULL
    ELSE CHOOSE r \in RoomsOf(g) : \A s \in RoomsOf(g) : r >= s

RemoveEveryRow(rows, g) == <<>>

RemoveGroupRows(rows, g) == SelectSeq(rows, LAMBDA row : row.id # g)

-----------------------------------------------------------------------------
(* datetime.datetime: the proleptic Gregorian calendar, to the minute      *)

IsLeap(year) == year % 4 = 0 /\ (year % 100 # 0 \/ year % 400 = 0)

MonthLengths(february) == <<31, february, 31, 30, 31, 30, 31, 31, 30, 31, 30, 31>>

DaysInMonth(year, month) == MonthLengths(IF IsLeap(year) THEN 29 ELSE 28)[month]

RECURSIVE DaysBeforeMonth(_, _)
DaysBeforeMonth(year, month) ==
    IF month = 1 THEN 0
    ELSE DaysBeforeMonth(year, month - 1) + DaysInMonth(year, month - 1)

DaysBeforeYear(year) ==
    LET y == year - 1
    IN  y * 365 + (y \div 4) - (y \div 100) + (y \div 400)

(* the arguments datetime() takes without raising ValueError *)
IsDate(year, month, day) == month \in 1..12 /\ day \in 1..DaysInMonth(year, month)

datetime(year, month, day, hour, minute) ==
    [year |-> year, month |-> month, day |-> day, hour |-> hour, minute |-> minute]

toordinal(d) == DaysBeforeYear(d.year) + DaysBeforeMonth(d.year, d.month) + d.day

(* int(strftime('%u')) - 1: Monday to Sunday are 0 to 6 *)
weekday(d) == (toordinal(d) + 6) % 7

(* datetimes compare as their minutes do; the seconds of datetime.now()   *)
(* leave `now < d` and `d > now` as they are between the minutes          *)
Minutes(d) == (toordinal(d) * 24 + d.hour) * 60 + d.minute

(* an attribute of AddingEvent that no step has assigned *)
NoDatetime == datetime(0, 0, 0, 0, 0)

(* the clocks of the model: the years from 2023 on, 2024 a leap year      *)
Years == 2023..(2022 + NumYears)

Clocks ==
    LET clocks == {datetime(year, month, day, time[1], time[2]) :
                      year \in Years, month \in {1, 2, 3, 12}, day \in {1, 15, 29, 31},
                      time \in {<<0, 0>>, <<23, 59>>}}
    IN  {d \in clocks : IsDate(d.year, d.month, d.day)}

Epoch == datetime(2023, 6, 1, 12, 0)

-----------------------------------------------------------------------------
(* Instances *)

NewInstance(cls, chat_id, language, group_id) ==
    [cls |-> cls, chat_id |-> chat_id, language |-> language, group_id |-> group_id,
     next_action |-> "none", is_familiar |-> TRUE, familiarity |-> {},
     is_student |-> FALSE,
     group_chat |-> NULL, num_votes |-> 0, num_positive_votes |-> 0,
     late_claimers |-> <<>>, poll_open |-> FALSE, voters |-> {},
     menu |-> {}, admin_id |-> NULL, to_admin |-> TRUE,
     edu_id |-> NULL, department_id |-> NULL,
     events |-> <<>>, info |-> <<>>,
     num_to_answer |-> 0, event |-> "", date |-> NoDatetime,
     weekday_index |-> NULL, time_str |-> <<>>,
     is_public |-> FALSE, asked |-> <<>>,
     answered |-> <<>>, refused |-> <<>>,
     is_last |-> FALSE]

(* the fields Interaction.__init__ takes from the record of the user *)
FromRecord(cls, record_id, command) ==
    [NewInstance(cls, record_id, chats[record_id].language, chats[record_id].group_id)
        EXCEPT !.is_familiar = command \in chats[record_id].familiarity,
               !.familiarity = chats[record_id].familiarity]

(* the identity of a new instance: the chat that starts it and a serial    *)
(* among the instances that chat has started and that are still reachable  *)
FreshId(chat) ==
    LET width == NumUsers + NumRooms + 1
        serial == CHOOSE n \in 0..Cardinality(DOMAIN inst) :
                      /\ (n * width + chat + NumRooms) \notin DOMAIN inst
                      /\ \A m \in 0..(n - 1) : (m * width + chat + NumRooms) \in DOMAIN inst
    IN  serial * width + chat + NumRooms

(* drop the instances that no key refers to *)
Reachable(cur, ins) == [i \in Range(cur) |-> ins[i]]

KeysOf(i) == {k \in DOMAIN current : current[k] = i}

(* Interaction.update_familiarity: the whole column is rewritten from the   *)
(* snapshot the instance took when it started, with one field replaced     *)
update_familiarity(table, user_id, familiarity, field) ==
    IF user_id \in DOMAIN table
    THEN [table EXCEPT ![user_id].familiarity = familiarity \cup {field}]
    ELSE table

(* Interaction.respond and its overrides: what is sent when a command is    *)
(* used during the interaction registered for the user                     *)
respond(i, command, user, chat) ==
    LET self == inst[i]
        kind == IF command = self.cls THEN "ALREADY_MESSAGE" ELSE "ONGOING_MESSAGE"
        reply == <<Ev("reply", chat, kind)>>
    IN  <<Ev("respond", i, command)>> \o
        (CASE self.cls = "start" ->
                  IF self.language > 0 THEN reply ELSE <<>>
           [] self.cls = "ask" /\ DOMAIN self.asked # {} ->
                  IF user \in DOMAIN self.asked
                  THEN <<Ev("reply", chat, "ONGOING_ANSWERING")>>
                  ELSE <<Ev("raise", chat, "KeyError")>>
           [] OTHER -> reply)


(* callback_data of the inline buttons that the conversation shows in the  *)
(* chat of the key while it waits at its step: ask_polar ('y', 'n'), the   *)
(* lists of events and of info (the index, '0' the first), the lists of    *)
(* students (their id), the refuse button of the asked and the stop button *)
(* of the leader                                                           *)
Buttons(self, key) ==
    CASE <<self.cls, self.next_action>> \in
             {<<"distrust", "handle_answer">>, <<"resign", "handle_answer">>,
              <<"leave", "handle_answer">>, <<"new", "handle_answer">>,
              <<"clear", "handle_answer">>, <<"ask", "handle_answer">>} -> {"y", "n"}
      [] <<self.cls, self.next_action>> \in
             {<<"cancel", "delete_event">>, <<"delete", "delete_info">>} -> {"0"}
      [] <<self.cls, self.next_action>> \in
             {<<"trust", "add_admin">>, <<"distrust", "remove_admin">>,
              <<"resign", "change_leader">>} -> {"id"}
      [] <<self.cls, self.next_action>> = <<"ask", "handle_response">> ->
             (IF key = self.chat_id THEN {"terminate"} ELSE {}) \cup
             (IF key \in DOMAIN self.asked THEN {"refuse"} ELSE {})
      [] <<self.cls, self.next_action>> = <<"start", "ask_city">> -> {"0"}
      [] <<self.cls, self.next_action>> \in
             {<<"start", "ask_edu">>, <<"start", "ask_department">>,
              <<"start", "ask_group_name">>} -> {"id"}
      [] OTHER -> {}

(* the keys that cur gives to another instance than the one they map to *)
Overwritten(cur) ==
    {k \in DOMAIN current \cap DOMAIN cur : cur[k] # current[k]}

(* the chats in which the handler has edited a message: the clicked one,   *)
(* which loses its buttons                                                 *)
Edited(tr) ==
    {tr[k].to : k \in {j \in DOMAIN tr : tr[j].op \in {"edit", "edit_reply_markup"}}}

(* the buttons on the screen that belong to no conversation of the chat    *)
(* any more; which message an edit has changed is not kept, so the buttons *)
(* of a chat are forgotten at the first edit in it                         *)
LeftAfter(cur, tr) ==
    {b \in left : b[1] \notin Edited(tr)} \cup
    UNION {{<<k, data>> : data \in Buttons(inst[current[k]], k)} :
              k \in Overwritten(cur) \cap AllChats}

(* the reminder thread between two runs of remind_about_events *)
Idle == [pc |-> "idle", today |-> NoDatetime, fetched |-> <<>>,
         student_records |-> <<>>, students |-> <<>>]

(* the registry and the instances after a handler, unreachable ones        *)
(* dropped; a handler runs in the thread of the updates and has no access  *)
(* to the locals of the reminder thread                                    *)
Registry(cur, ins, tr) ==
    /\ current' = cur
    /\ inst' = Reachable(cur, ins)
    /\ trace' = tr
    /\ left' = LeftAfter(cur, tr)
    /\ reminder' = reminder

(* UPDATE chats SET role = ? WHERE id = ? *)
SetRole(table, id, role) ==
    IF id \in DOMAIN table THEN [table EXCEPT ![id].role = role] ELSE table

(* Interaction.terminate *)
terminate(cur, i) == Del(cur, inst[i].chat_id)

(* the instance a click or a text in the chat is handed to                 *)
(* (brain.callback_query_handler, brain.text_handler: current[chat_id])    *)
Active(chat, cls, step) ==
    /\ chat \in DOMAIN current
    /\ inst[current[chat]].cls = cls
    /\ inst[current[chat]].next_action = step

-----------------------------------------------------------------------------
(* Registration: /start *)

registration(chat) ==
    /\ chat \in AllChats
    /\ IF chat \notin Registered
       THEN IF chat \notin DOMAIN current
            THEN LET i == FreshId(chat)
                     self == [NewInstance("start", chat, NULL, NULL) EXCEPT
                                 !.is_student = (ChatType(chat) = PRIVATE),
                                 !.next_action = "ask_city"]
                 IN  Registry(Put(current, chat, i), Put(inst, i, self),
                              <<Ev("new", i, "start"), Send(chat, "ASK_LANGUAGE")>>)
            ELSE Registry(current, inst, respond(current[chat], "start", chat, chat))
       ELSE Registry(current, inst, <<Send(chat, "ALREADY_REGISTERED")>>)
    /\ UNCHANGED <<chats, groups, quorum, ratio, now>>

ask_city(chat, language) ==
    /\ Active(chat, "start", "ask_city")
    /\ LET i == current[chat]
       IN  Registry(current,
                    [inst EXCEPT ![i].language = language, ![i].next_action = "ask_edu"],
                    <<Ev("edit", chat, "ASK_CITY")>>)
    /\ UNCHANGED <<chats, groups, quorum, ratio, now>>

ask_edu(chat) ==
    /\ Active(chat, "start", "ask_edu")
    /\ LET i == current[chat]
       IN  Registry(current, [inst EXCEPT ![i].next_action = "ask_department"],
                    <<Ev("edit", chat, "ASK_EDU")>>)
    /\ UNCHANGED <<chats, groups, quorum, ratio, now>>

ask_department(chat, edu_id) ==
    /\ Active(chat, "start", "ask_department")
    /\ LET i == current[chat]
       IN  Registry(current,
                    [inst EXCEPT ![i].group_id = edu_id,
                                 ![i].edu_id = edu_id,
                                 ![i].next_action = "ask_group_name"],
                    <<Ev("edit", chat, "ASK_DEPARTMENT")>>)
    /\ UNCHANGED <<chats, groups, quorum, ratio, now>>

(* 10 departments to an institution instead of 100 *)
department_of_ten(edu_id, department_id) == edu_id * 10 + department_id

(* Registration.ask_group_name: the id of the institution, then the two   *)
(* digits of the department                                                *)
department_key(edu_id, department_id) == edu_id * 100 + department_id

ask_group_name(chat, department_id) ==
    /\ Active(chat, "start", "ask_group_name")
    /\ LET i == current[chat]
       IN  Registry(current,
                    [inst EXCEPT ![i].group_id = department_key(inst[i].group_id,
                                                                department_id),
                                 ![i].department_id = department_id,
                                 ![i].next_action = "handle_group_name"],
                    <<Ev("edit", chat, "ASK_GROUP_NAME")>>)
    /\ UNCHANGED <<chats, groups, quorum, ratio, now>>

(* Registration.get_department_group_records: id / 1000 = ?, the rows in  *)
(* the order of the table                                                  *)
get_department_group_records(key) ==
    SelectSeq(groups, LAMBDA row : row.id \div 1000 = key)

(* the query has no ORDER BY: the orders fetchall() may give the rows in   *)
Fetches(key) ==
    LET rows == get_department_group_records(key)
        n == Len(rows)
    IN  {[k \in 1..n |-> rows[order[k]]] :
            order \in {f \in [1..n -> 1..n] : \A a, b \in 1..n : a # b => f[a] # f[b]}}

(* the new id from the greatest id of the department *)
after_the_greatest(records) ==
    (CHOOSE id \in {records[k].id : k \in DOMAIN records} :
         \A k \in DOMAIN records : id >= records[k].id) + 1

(* Registration.determine_group_id, the else clause of the loop: the loop  *)
(* variable holds the id of the last record                                *)
after_the_last(records) == records[Len(records)].id + 1

(* Registration.determine_group_id: <<group id, is_first>> *)
determine_group_id(key, records, group_name) ==
    LET same == {k \in DOMAIN records : records[k].name = group_name}
    IN  IF records # <<>>
        THEN IF same # {}
             THEN <<records[CHOOSE k \in same : \A m \in same : k <= m].id, FALSE>>
             ELSE <<after_the_last(records), TRUE>>
        ELSE <<key * 1000, TRUE>>

(* the languages auxiliary.update_group_chat_language may pick: the first  *)
(* row of GROUP BY language ORDER BY spoken_by DESC                        *)
CommonLanguages(table, g) ==
    LET students == {c \in DOMAIN table : table[c].group_id = g /\ table[c].type = PRIVATE}
        spoken_by(lang) == Cardinality({c \in students : table[c].language = lang})
        spoken == {table[c].language : c \in students}
    IN  {lang \in spoken : \A other \in spoken : spoken_by(lang) >= spoken_by(other)}

update_group_chat_language(table, g, common) ==
    [c \in DOMAIN table |->
        IF table[c].group_id = g /\ table[c].type # PRIVATE
        THEN [table[c] EXCEPT !.language = common]
        ELSE table[c]]

(* Registration.report_on_related_chats, for a chat that is not the first   *)
(* of its group                                                            *)
report_on_related_chats(table, chat, g, is_student) ==
    LET groupmates == {c \in DOMAIN table : table[c].group_id = g
                                            /\ table[c].type = PRIVATE /\ c # chat}
        group_chats == {c \in DOMAIN table : table[c].group_id = g /\ table[c].type # PRIVATE}
    IN  IF is_student
        THEN SendAll(group_chats, "NEW_GROUPMATE")
             \o (IF Cardinality(groupmates) = quorum
                 THEN SendAll(groupmates, "LC_NOW_AVAILABLE") ELSE <<>>)
             \o <<Send(chat, "GROUPMATES_FOUND")>>
        ELSE <<Send(chat, "STUDENTS_FOUND")>>

handle_group_name(chat, entered_group_name) ==
    /\ Active(chat, "start", "handle_group_name")
    /\ LET i == current[chat]
           self == inst[i]
       IN  IF HasNewline(entered_group_name)
           THEN /\ Registry(current, inst, <<Send(chat, "INVALID_GROUP_NAME")>>)
                /\ UNCHANGED <<chats, groups>>
           ELSE IF NameLength(entered_group_name) > MAX_GROUP_NAME_LENGTH
           THEN /\ Registry(current, inst, <<Send(chat, "TOO_LONG_GROUP_NAME")>>)
                /\ UNCHANGED <<chats, groups>>
           ELSE IF chat \in Registered
           THEN \* the id of a chat is unique in the table: the INSERT of create_record fails
                /\ Registry(current, inst, <<Ev("raise", chat, "IntegrityError")>>)
                /\ UNCHANGED <<chats, groups>>
           ELSE
             \E records \in Fetches(self.group_id) :
             LET group_name == Upper(entered_group_name)
                 determined == determine_group_id(self.group_id, records, group_name)
                 g == determined[1]
                 is_first == determined[2]
                 created == Put(chats, chat,
                                ChatRecord(ChatType(chat), self.language, g,
                                           IF self.is_student THEN ORDINARY_ROLE ELSE NULL))
             IN  /\ groups' = IF is_first THEN Append(groups, GroupRecord(g, group_name))
                                          ELSE groups
                 /\ IF is_first
                    THEN /\ chats' = created
                         /\ Registry(terminate(current, i), inst,
                                     <<Send(chat, "INTRODUCTION"), Send(chat, "NONE_FOUND")>>)
                    ELSE IF CommonLanguages(created, g) = {}
                    THEN \* fetchone() gives None: the handler stops after create_record
                         /\ chats' = created
                         /\ Registry(current, inst, <<Ev("raise", chat, "TypeError")>>)
                    ELSE \E common \in CommonLanguages(created, g) :
                         /\ chats' = update_group_chat_language(created, g, common)
                         /\ Registry(terminate(current, i), inst,
                                     <<Send(chat, "INTRODUCTION")>>
                                     \o report_on_related_chats(created, chat, g, self.is_student))
    /\ UNCHANGED <<quorum, ratio, now>>

-----------------------------------------------------------------------------
(* managers.attempt_interaction, up to the construction of the instance:   *)
(* "start" when the interaction is to be constructed, "respond" when the   *)
(* user is already having one, "unavailable" when the role is too low      *)
attempt_interaction_anew(command_role, record_id) ==
    IF chats[record_id].role >= command_role THEN "start" ELSE "unavailable"

attempt_interaction(command_role, record_id) ==
    IF chats[record_id].role >= command_role
    THEN IF record_id \notin DOMAIN current THEN "start" ELSE "respond"
    ELSE "unavailable"

(* what attempt_interaction does when it does not construct *)
NotStarted(outcome, command, record_id) ==
    /\ outcome # "start"
    /\ IF outcome = "respond"
       THEN Registry(current, inst, respond(current[record_id], command, record_id, record_id))
       ELSE Registry(current, inst, <<Send(record_id, "UNAVAILABLE_MESSAGE")>>)

-----------------------------------------------------------------------------
(* LeaderConfirmation: /claim *)

(* LeaderConfirmation.__init__ and send_confirmation_poll *)
LeaderConfirmation(i, record_id, group_chat) ==
    [NewInstance("claim", record_id, chats[record_id].language, chats[record_id].group_id)
        EXCEPT !.group_chat = group_chat,
               !.poll_open = TRUE,
               !.next_action = "handle_answer"]

Registered_too_few(num_groupmates) == num_groupmates >= 0

(* managers.leader_confirmation: many enough students of the group are     *)
(* registered                                                              *)
many_enough_registered(num_groupmates) == num_groupmates >= quorum

leader_confirmation(user) ==
    /\ user \in Registered /\ chats[user].type = PRIVATE
    /\ LET record == chats[user]
           g == record.group_id
           group_chat == FirstRoom(g)
           num_groupmates == Cardinality(StudentsOf(g)) - 1
       IN  IF record.role = LEADER_ROLE
           THEN Registry(current, inst, <<Ev("reply", user, "ALREADY_LEADER")>>)
           ELSE IF WithRole(g, LEADER_ROLE) # {}
           THEN Registry(current, inst, <<Ev("reply", user, "ALREADY_LEADER_IN_GROUP")>>)
           ELSE IF group_chat = NULL
           THEN Registry(current, inst, <<Ev("reply", user, "GROUP_CHAT_NEEDED")>>)
           ELSE IF ~many_enough_registered(num_groupmates)
           THEN Registry(current, inst, <<Ev("reply", user, "NOT_ENOUGH_FOR_LEADER_CONFIRMATION")>>)
           ELSE IF group_chat \in DOMAIN current
           THEN \* is_having: the bare name `current` is not defined in managers.py
                Registry(current, inst, <<Ev("raise", user, "NameError")>>)
           ELSE LET outcome == attempt_interaction(ORDINARY_ROLE, user)
                    i == FreshId(user)
                IN  IF outcome = "start"
                    THEN Registry(Put(current, g, i),
                                  Put(inst, i, LeaderConfirmation(i, user, group_chat)),
                                  <<Ev("new", i, "claim"),
                                    Send(user, "CONFIRMATION_POLL_SENT"),
                                    Ev("send_poll", group_chat, "LC_QUESTION"),
                                    Send(user, "CONFIRMATION_POLL_SENT")>>)
                    ELSE NotStarted(outcome, "claim", user)
    /\ UNCHANGED <<chats, groups, quorum, ratio, now>>

handle_result_tie(num_positive_votes) == 2 * num_positive_votes >= quorum

(* LeaderConfirmation.handle_result: whether the candidate is confirmed *)
handle_result(num_positive_votes) == 2 * num_positive_votes > quorum

(* the late claimers are told that the candidate is not confirmed *)
RECURSIVE NotifyClaimers(_)
NotifyClaimers(claimers) ==
    IF claimers = <<>> THEN <<>>
    ELSE <<Send(Head(claimers), "CANDIDATE_NOT_CONFIRMED")>> \o NotifyClaimers(Tail(claimers))

many_enough_answered_late(num_votes) == num_votes = quorum + 1

(* LeaderConfirmation.handle_answer: many enough groupmates have answered *)
many_enough_answered(num_votes) == num_votes = quorum

(* a poll answer of a student of group g reaches the instance registered   *)
(* for the group, which is waiting for answers                             *)
PollAnswered(g, user_id) ==
    /\ g \in DOMAIN current
    /\ inst[current[g]].cls = "claim"
    /\ inst[current[g]].next_action = "handle_answer"
    /\ user_id \in Registered /\ chats[user_id].type = PRIVATE
    /\ chats[user_id].group_id = g

(* LeaderConfirmation.handle_answer, the answer not being the candidate's; *)
(* option 0 is the positive one. The field voters is the record the poll   *)
(* itself keeps at Telegram of the groupmates whose answer it holds: the   *)
(* instance neither reads nor writes it.                                   *)
count_answer(g, user_id, option) ==
    LET i == current[g]
        self == [inst[i] EXCEPT !.voters = @ \cup {user_id}]
        num_votes == self.num_votes + 1
        num_positive_votes == self.num_positive_votes + (IF option = 0 THEN 1 ELSE 0)
        counted == [self EXCEPT !.num_votes = num_votes,
                                !.num_positive_votes = num_positive_votes]
    IN  IF many_enough_answered(num_votes)
        THEN IF handle_result(num_positive_votes)
             THEN /\ chats' = SetRole(chats, self.chat_id, LEADER_ROLE)
                  /\ Registry(Put(Del(current, self.group_id), self.chat_id, i),
                              [inst EXCEPT ![i] = [counted EXCEPT
                                    !.poll_open = FALSE,
                                    !.next_action = "handle_year"]],
                              <<Ev("delete_poll", self.group_chat, "LC_QUESTION"),
                                Send(self.chat_id, "YOU_CONFIRMED"),
                                Send(self.group_chat, "LEADER_CONFIRMED"),
                                Send(self.chat_id, "ASK_EDU_YEAR")>>)
             ELSE /\ chats' = chats
                  /\ Registry(Del(current, self.group_id), inst,
                              <<Ev("delete_poll", self.group_chat, "LC_QUESTION")>>
                              \o NotifyClaimers(self.late_claimers)
                              \o <<Send(self.chat_id, "YOU_NOT_CONFIRMED"),
                                   Send(self.group_chat, "LEADER_NOT_CONFIRMED")>>)
        ELSE /\ chats' = chats
             /\ Registry(current, [inst EXCEPT ![i] = counted], <<>>)

handle_answer_of_anyone(g, user_id, option) ==
    /\ PollAnswered(g, user_id)
    /\ count_answer(g, user_id, option)
    /\ UNCHANGED <<groups, quorum, ratio, now>>

(* LeaderConfirmation.handle_answer with the poll answer of user_id *)
LeaderConfirmation_handle_answer(g, user_id, option) ==
    /\ PollAnswered(g, user_id)
    /\ IF user_id # inst[current[g]].chat_id
       THEN /\ user_id \notin inst[current[g]].voters
            /\ inst[current[g]].num_votes < MaxVotes
            /\ count_answer(g, user_id, option)
       ELSE /\ chats' = chats
            /\ Registry(current, inst,
                        <<Send(inst[current[g]].group_chat, "CHEATING_IN_LC")>>)
    /\ UNCHANGED <<groups, quorum, ratio, now>>

(* LeaderConfirmation.handle_answer with the update Telegram sends when a  *)
(* groupmate retracts their answer, which has no option: the answer is     *)
(* counted, and the look at its first option raises before the tally is    *)
(* compared with the quorum (the candidate's retraction is told from their *)
(* answer by nothing the method reads)                                     *)
LeaderConfirmation_handle_retraction(g, user_id) ==
    /\ PollAnswered(g, user_id)
    /\ user_id # inst[current[g]].chat_id
    /\ user_id \in inst[current[g]].voters
    /\ inst[current[g]].num_votes < MaxVotes
    /\ Registry(current,
                [inst EXCEPT ![current[g]].num_votes = @ + 1,
                             ![current[g]].voters = @ \ {user_id}],
                <<Ev("raise", user_id, "IndexError")>>)
    /\ UNCHANGED <<chats, groups, quorum, ratio, now>>

(* texts a leader may answer the question about the years with *)
YearInputs ==
    {[found |-> 1, current_edu_year |-> 1, all_edu_years |-> 4],
     [found |-> 1, current_edu_year |-> 5, all_edu_years |-> 4],
     [found |-> 1, current_edu_year |-> 1, all_edu_years |-> 7],
     [found |-> 0, current_edu_year |-> 0, all_edu_years |-> 0],
     [found |-> 2, current_edu_year |-> 0, all_edu_years |-> 0]}

any_edu_year(edu_year) == "ok"

(* LeaderConfirmation.inspect_edu_year: "ok" or the reason of the refusal *)
inspect_edu_year(edu_year) ==
    IF edu_year.found = 1
    THEN IF edu_year.current_edu_year <= edu_year.all_edu_years
         THEN IF edu_year.all_edu_years > MAX_EDU_YEARS
              THEN "INVALID_ALL_EDU_YEARS" ELSE "ok"
         ELSE "INVALID_CURRENT_EDU_YEAR"
    ELSE IF edu_year.found = 0 THEN "INVALID_EDU_YEAR" ELSE "MULTIPLE_EDU_YEARS"

(* LeaderConfirmation.save_graduation_year: years from this one *)
save_graduation_year(rows, g, edu_year, is_first_term) ==
    [k \in DOMAIN rows |->
        IF rows[k].id = g
        THEN [rows[k] EXCEPT !.graduation =
                 (edu_year.all_edu_years - edu_year.current_edu_year)
                 + (IF is_first_term THEN 1 ELSE 0)]
        ELSE rows[k]]

handle_year(chat, edu_year, is_first_term) ==
    /\ Active(chat, "claim", "handle_year")
    /\ LET i == current[chat]
           self == inst[i]
           verdict == inspect_edu_year(edu_year)
       IN  IF verdict = "ok"
           THEN /\ groups' = save_graduation_year(groups, self.group_id, edu_year, is_first_term)
                /\ Registry(terminate(current, i), inst,
                            <<Send(chat, "GRADUATION_YEAR_SAVED")>>)
           ELSE /\ groups' = groups
                /\ Registry(current, inst, <<Send(chat, verdict)>>)
    /\ UNCHANGED <<chats, quorum, ratio, now>>

-----------------------------------------------------------------------------
(* brain.command_handler: a leader command of a user who is not the leader *)
LeaderOnly(user) ==
    /\ chats[user].role # LEADER_ROLE
    /\ Registry(current, inst, <<Send(user, "UNAVAILABLE_MESSAGE")>>)

(* Interaction.__init__ with a record: the instance takes the key of the   *)
(* user                                                                    *)
Start(i, self) ==
    Registry(Put(current, self.chat_id, i), Put(inst, i, self),
             <<Ev("new", i, self.cls), Send(self.chat_id, "ASK")>>)

(* the write of the familiarity that a step makes the first time *)
FirstTime(table, self, field) ==
    IF ~self.is_familiar
    THEN update_familiarity(table, self.chat_id, self.familiarity, field)
    ELSE table

-----------------------------------------------------------------------------
(* AddingAdmin: /trust *)

(* a cap that counts the admins there are, not the one to be added *)
WithinRatio_before(num_admins, num_students) ==
    num_admins * ratio[2] <= ratio[1] * num_students

(* managers.adding_admin: (num_admins + 1) / num_students <= the ratio *)
WithinRatio(num_admins, num_students) ==
    (num_admins + 1) * ratio[2] <= ratio[1] * num_students

adding_admin(user) ==
    /\ user \in Registered /\ chats[user].type = PRIVATE
    /\ \/ LeaderOnly(user)
       \/ /\ chats[user].role = LEADER_ROLE
          /\ LET g == chats[user].group_id
                 num_admins == Cardinality(WithRole(g, ADMIN_ROLE))
                 num_students == Cardinality(StudentsOf(g))
                 outcome == attempt_interaction(LEADER_ROLE, user)
                 i == FreshId(user)
             IN  IF WithinRatio(num_admins, num_students)
                 THEN IF outcome = "start"
                      THEN Start(i, [FromRecord("trust", user, "trust") EXCEPT
                                        !.menu = WithRole(g, ORDINARY_ROLE),
                                        !.next_action = "add_admin"])
                      ELSE NotStarted(outcome, "trust", user)
                 ELSE Registry(current, inst, <<Ev("reply", user, "ADMIN_LIMIT_REACHED")>>)
    /\ UNCHANGED <<chats, groups, quorum, ratio, now>>

add_admin(chat, new_admin_id) ==
    /\ Active(chat, "trust", "add_admin")
    /\ new_admin_id \in inst[current[chat]].menu
    /\ LET i == current[chat]
           self == inst[i]
       IN  /\ chats' = SetRole(FirstTime(chats, self, "trust"), new_admin_id, ADMIN_ROLE)
           /\ Registry(terminate(current, i), inst,
                       <<Send(new_admin_id, "YOU_NOW_ADMIN"), Ev("edit", chat, "NOW_ADMIN")>>)
    /\ UNCHANGED <<groups, quorum, ratio, now>>

-----------------------------------------------------------------------------
(* RemovingAdmin: /distrust *)

removing_admin(user) ==
    /\ user \in Registered /\ chats[user].type = PRIVATE
    /\ \/ LeaderOnly(user)
       \/ /\ chats[user].role = LEADER_ROLE
          /\ LET g == chats[user].group_id
                 outcome == attempt_interaction(LEADER_ROLE, user)
                 i == FreshId(user)
             IN  IF WithRole(g, ADMIN_ROLE) # {}
                 THEN IF outcome = "start"
                      THEN Start(i, [FromRecord("distrust", user, "distrust") EXCEPT
                                        !.menu = WithRole(g, ADMIN_ROLE),
                                        !.next_action = "remove_admin"])
                      ELSE NotStarted(outcome, "distrust", user)
                 ELSE Registry(current, inst, <<Ev("reply", user, "ALREADY_NO_ADMINS")>>)
    /\ UNCHANGED <<chats, groups, quorum, ratio, now>>

remove_admin(chat, admin_id) ==
    /\ Active(chat, "distrust", "remove_admin")
    /\ admin_id \in inst[current[chat]].menu
    /\ LET i == current[chat]
       IN  /\ chats' = SetRole(chats, admin_id, ORDINARY_ROLE)
           /\ Registry(current,
                       [inst EXCEPT ![i].admin_id = admin_id,
                                    ![i].next_action = "handle_answer"],
                       <<Ev("edit", chat, "ASK_TO_NOTIFY_FORMER")>>)
    /\ UNCHANGED <<groups, quorum, ratio, now>>

RemovingAdmin_handle_answer(chat, answer) ==
    /\ Active(chat, "distrust", "handle_answer")
    /\ LET i == current[chat]
           self == inst[i]
       IN  /\ chats' = FirstTime(chats, self, "distrust")
           /\ Registry(terminate(current, i), inst,
                       IF answer = "y"
                       THEN <<Send(self.admin_id, "YOU_NO_MORE_ADMIN"),
                              Ev("edit", chat, "FORMER_ADMIN_NOTIFIED")>>
                       ELSE <<Ev("edit", chat, "FORMER_NOT_NOTIFIED")>>)
    /\ UNCHANGED <<groups, quorum, ratio, now>>

-----------------------------------------------------------------------------
(* ChangingLeader: /resign *)

changing_leader(user) ==
    /\ user \in Registered /\ chats[user].type = PRIVATE
    /\ \/ LeaderOnly(user)
       \/ /\ chats[user].role = LEADER_ROLE
          /\ LET g == chats[user].group_id
                 num_groupmates == Cardinality(StudentsOf(g)) - 1
                 outcome == attempt_interaction(LEADER_ROLE, user)
                 i == FreshId(user)
             IN  IF num_groupmates # 0
                 THEN IF outcome = "start"
                      THEN Start(i, [FromRecord("resign", user, "resign") EXCEPT
                                        !.next_action = "handle_answer"])
                      ELSE NotStarted(outcome, "resign", user)
                 ELSE Registry(current, inst, <<Ev("reply", user, "NO_GROUPMATES_FOR_RESIGN")>>)
    /\ UNCHANGED <<chats, groups, quorum, ratio, now>>

(* ChangingLeader.get_candidate_records: the admins of the group, or, when *)
(* there is none, its ordinary students                                    *)
get_candidate_records(g) ==
    IF WithRole(g, ADMIN_ROLE) # {}
    THEN WithRole(g, ADMIN_ROLE)
    ELSE WithRole(g, ORDINARY_ROLE) \cap StudentsOf(g)

ChangingLeader_handle_answer(chat, answer) ==
    /\ Active(chat, "resign", "handle_answer")
    /\ LET i == current[chat]
           self == inst[i]
       IN  /\ chats' = FirstTime(chats, self, "resign")
           /\ IF answer = "y"
              THEN Registry(current,
                            [inst EXCEPT ![i].menu = get_candidate_records(self.group_id),
                                         ![i].to_admin = WithRole(self.group_id, ADMIN_ROLE) # {},
                                         ![i].next_action = "change_leader"],
                            <<Send(chat, "ASK_NEW_LEADER")>>)
              ELSE Registry(terminate(current, i), inst,
                            <<Ev("edit", chat, "AUTHORITIES_KEPT")>>)
    /\ UNCHANGED <<groups, quorum, ratio, now>>

change_leader(chat, new_leader_id) ==
    /\ Active(chat, "resign", "change_leader")
    /\ new_leader_id \in inst[current[chat]].menu
    /\ LET i == current[chat]
           self == inst[i]
       IN  /\ chats' = SetRole(SetRole(FirstTime(chats, self, "resign"),
                                       new_leader_id, LEADER_ROLE),
                               self.chat_id, ADMIN_ROLE)
           /\ Registry(terminate(current, i), inst,
                       <<Send(new_leader_id, "YOU_NOW_LEADER"), Ev("edit", chat, "NOW_LEADER")>>)
    /\ UNCHANGED <<groups, quorum, ratio, now>>

-----------------------------------------------------------------------------
(* DeletingData: /leave *)

(* whether the user is the last registered student of the group, as the    *)
(* manager of /leave tells the instance                                    *)
is_last(user) == StudentsOf(chats[user].group_id) \ {user} = {}

(* managers.leaving *)
deleting_data(user) ==
    /\ user \in Registered /\ chats[user].type = PRIVATE
    /\ LET outcome == attempt_interaction(ORDINARY_ROLE, user)
           i == FreshId(user)
       IN  IF outcome = "start"
           THEN Start(i, [FromRecord("leave", user, "leave") EXCEPT
                             !.is_last = is_last(user),
                             !.next_action = "handle_answer"])
           ELSE NotStarted(outcome, "leave", user)
    /\ UNCHANGED <<chats, groups, quorum, ratio, now>>

(* DeletingData.delete_record and the rest of handle_answer after it *)
delete_record(chat, self, written) ==
    IF self.is_last
    THEN /\ chats' = [c \in {x \in DOMAIN written : written[x].group_id # self.group_id}
                        |-> written[c]]
         /\ groups' = RemoveGroupRows(groups, self.group_id)
         /\ Registry(terminate(current, current[chat]), inst,
                     <<Ev("edit", chat, "DATA_DELETED")>>)
    ELSE LET deleted == Del(written, self.chat_id)
         IN  /\ groups' = groups
             /\ IF CommonLanguages(deleted, self.group_id) = {}
                THEN \* fetchone() gives None in update_group_chat_language
                     /\ chats' = deleted
                     /\ Registry(current, inst, <<Ev("raise", chat, "TypeError")>>)
                ELSE \E common \in CommonLanguages(deleted, self.group_id) :
                     /\ chats' = update_group_chat_language(deleted, self.group_id, common)
                     /\ Registry(terminate(current, current[chat]), inst,
                                 <<Ev("edit", chat, "DATA_DELETED")>>)

DeletingData_handle_answer(chat, answer) ==
    /\ Active(chat, "leave", "handle_answer")
    /\ LET i == current[chat]
           self == inst[i]
           written == FirstTime(chats, self, "leave")
       IN  IF answer = "y"
           THEN delete_record(chat, self, written)
           ELSE /\ chats' = written
                /\ groups' = groups
                /\ Registry(terminate(current, i), inst, <<Ev("edit", chat, "DATA_KEPT")>>)
    /\ UNCHANGED <<quorum, ratio, now>>

-----------------------------------------------------------------------------
(* AddingEvent: /new *)

EventInputs == {"exam", "ex\nam"}

(* a text for the date: what findall(DATE_PATTERN, text) makes of it *)
Text(dates, day, month, time, hour, minute) ==
    [dates |-> dates, day |-> day, month |-> month,
     time |-> time, hour |-> hour, minute |-> minute]

DateOnly(day, month) == Text(1, day, month, FALSE, 0, 0)
DateAndTime(day, month, hour, minute) == Text(1, day, month, TRUE, hour, minute)
NoDates == Text(0, 0, 0, FALSE, 0, 0)
TwoDates == Text(2, 0, 0, FALSE, 0, 0)

DayInputs == {0, 1, 28, 29, 30, 31, 32}
MonthInputs == {0, 1, 2, 3, 4, 12, 13}
HourInputs == {0, 23, 24}
MinuteInputs == {59, 60}

DateInputs ==
    {NoDates, TwoDates}
    \cup {DateOnly(day, month) : day \in DayInputs, month \in MonthInputs}
    \cup {DateAndTime(day, month, hour, minute) :
              day \in DayInputs, month \in MonthInputs,
              hour \in HourInputs, minute \in MinuteInputs}

(* the texts of the conversations in which the date is not the matter *)
FewDateInputs == {NoDates, DateOnly(15, 3)}

adding_event(user) ==
    /\ user \in Registered /\ chats[user].type = PRIVATE
    /\ LET outcome == attempt_interaction(ADMIN_ROLE, user)
           i == FreshId(user)
       IN  IF outcome = "start"
           THEN Start(i, [FromRecord("new", user, "new") EXCEPT
                             !.next_action = "handle_event"])
           ELSE NotStarted(outcome, "new", user)
    /\ UNCHANGED <<chats, groups, quorum, ratio, now>>

handle_event(chat, event) ==
    /\ Active(chat, "new", "handle_event")
    /\ LET i == current[chat]
       IN  IF event # "ex\nam"
           THEN Registry(current, [inst EXCEPT ![i].event = event,
                                               ![i].next_action = "handle_date"],
                         <<Send(chat, "ASK_DATE")>>)
           ELSE Registry(current, inst, <<Send(chat, "INVALID_EVENT")>>)
    /\ UNCHANGED <<chats, groups, quorum, ratio, now>>

next_february_length(clock) ==
    LET next_february_year == IF clock.month > 2 THEN clock.year + 1 ELSE clock.year
    IN  IF next_february_year % 4 # 0 THEN 28 ELSE 29

hour_over_24(hour) == ~(hour <= 24)

hour_over_23(hour) == ~(hour <= 23)

hour_of(text) == IF text.time THEN text.hour ELSE 23
minute_of(text) == IF text.time THEN text.minute ELSE 59

date_this_year(text, clock) ==
    datetime(clock.year, text.month, text.day, hour_of(text), minute_of(text))

is_this_year_or_now(clock, date) == Minutes(clock) <= Minutes(date)

is_this_year(clock, date) == Minutes(clock) < Minutes(date)

(* AddingEvent.inspect_date, its assignment to self.date: the date this   *)
(* year if it is yet to come, else the date next year                     *)
resolved(text, clock) ==
    IF is_this_year(clock, date_this_year(text, clock))
    THEN date_this_year(text, clock)
    ELSE datetime(clock.year + 1, text.month, text.day, hour_of(text), minute_of(text))

(* AddingEvent.inspect_date, what it returns: None, the message of the    *)
(* first check that fails, or the ValueError that datetime() raises       *)
inspect_date(text, clock) ==
    IF text.dates = 1
    THEN IF text.month <= 12
         THEN IF text.month >= 1
              THEN IF text.day <= MonthLengths(next_february_length(clock))[text.month]
                   THEN IF text.day >= 1
                        THEN IF text.time /\ hour_over_23(text.hour)
                             THEN "INVALID_HOUR"
                             ELSE IF text.time /\ ~(text.minute <= 59)
                             THEN "INVALID_MINUTE"
                             ELSE IF ~IsDate(clock.year, text.month, text.day)
                             THEN "ValueError"
                             ELSE IF /\ ~is_this_year(clock, date_this_year(text, clock))
                                     /\ ~IsDate(clock.year + 1, text.month, text.day)
                             THEN "ValueError"
                             ELSE "None"
                        ELSE "DAY_0"
                   ELSE "DAY_OVER_MONTH_LENGTH"
              ELSE "MONTH_0"
         ELSE "MONTH_OVER_12"
    ELSE IF text.dates = 0
    THEN "INVALID_DATE"
    ELSE "MULTIPLE_DATES"

(* AddingEvent.inspect_date, its assignment to self.time_str: made once   *)
(* the hour and the minute have passed their checks                       *)
sets_time_str(text, clock) ==
    /\ text.time
    /\ inspect_date(text, clock) \in {"None", "ValueError"}

(* the string of an event, its date first: '<weekday> dd.mm[, hh:mm]'     *)
EventStr(weekday_index, date, time_str, event) ==
    [weekday_index |-> weekday_index, day |-> date.day, month |-> date.month,
     time_str |-> time_str, event |-> event]

(* auxiliary.str_to_datetime: the year is the one of the clock, the next  *)
(* one or the one before, by the weekday the string begins with           *)
year_of(event, clock) ==
    LET hour == IF event.time_str # <<>> THEN event.time_str[1] ELSE 23
        minute == IF event.time_str # <<>> THEN event.time_str[2] ELSE 59
        weekday_index_this_year ==
            weekday(datetime(clock.year, event.month, event.day, hour, minute))
    IN  IF \/ event.weekday_index > weekday_index_this_year
           \/ (event.weekday_index = 0 /\ weekday_index_this_year = 6)
        THEN clock.year + 1
        ELSE IF \/ event.weekday_index < weekday_index_this_year
                \/ (event.weekday_index = 6 /\ weekday_index_this_year = 0)
        THEN clock.year - 1
        ELSE clock.year

str_to_datetime_raises(event, clock) ==
    \/ ~IsDate(clock.year, event.month, event.day)
    \/ ~IsDate(year_of(event, clock), event.month, event.day)

str_to_datetime(event, clock) ==
    datetime(year_of(event, clock), event.month, event.day,
             IF event.time_str # <<>> THEN event.time_str[1] ELSE 23,
             IF event.time_str # <<>> THEN event.time_str[2] ELSE 59)

is_later(date, event, clock) == Minutes(date) > Minutes(str_to_datetime(event, clock))

(* AddingEvent.save_event: the loop goes from the last event to the first *)
(* and ends at the first one that is earlier than the new event, or that  *)
(* str_to_datetime raises for                                             *)
StopsAt(events, date, clock) ==
    LET stops == {k \in DOMAIN events :
                      \/ str_to_datetime_raises(events[k], clock)
                      \/ is_later(date, events[k], clock)}
    IN  IF stops = {} THEN 0 ELSE CHOOSE k \in stops : \A m \in stops : k >= m

save_event_raises(events, date, clock) ==
    LET at == StopsAt(events, date, clock)
    IN  at # 0 /\ str_to_datetime_raises(events[at], clock)

insert_event(events, event, date, clock) ==
    LET at == StopsAt(events, date, clock)
    IN  SubSeq(events, 1, at) \o <<event>> \o SubSeq(events, at + 1, Len(events))

EventsOf(g) ==
    IF \E k \in DOMAIN groups : groups[k].id = g
    THEN groups[CHOOSE k \in DOMAIN groups : groups[k].id = g].events
    ELSE <<>>

UpdateEvents(rows, g, events) ==
    [k \in DOMAIN rows |->
        IF rows[k].id = g THEN [rows[k] EXCEPT !.events = events] ELSE rows[k]]

save_event(rows, g, event, date, clock) ==
    UpdateEvents(rows, g, insert_event(EventsOf(g), event, date, clock))

(* AddingEvent.notify: every student of the group is given to the instance *)
notify(cur, table, i, g) ==
    LET students == {c \in DOMAIN table : table[c].group_id = g /\ table[c].type = PRIVATE}
    IN  [k \in (DOMAIN cur) \cup students |-> IF k \in students THEN i ELSE cur[k]]

handle_date(chat, text) ==
    /\ Active(chat, "new", "handle_date")
    /\ Len(EventsOf(inst[current[chat]].group_id)) < MaxEvents
    /\ LET i == current[chat]
           self == inst[i]
           returned == inspect_date(text, now)
           date == resolved(text, now)
           time_str == IF sets_time_str(text, now)
                       THEN <<text.hour, text.minute>> ELSE self.time_str
           event == EventStr(weekday(date), date, time_str, self.event)
       IN  IF returned = "None"
           THEN /\ chats' = FirstTime(chats, self, "new")
                /\ IF save_event_raises(EventsOf(self.group_id), date, now)
                   THEN /\ groups' = groups
                        /\ Registry(current,
                                    [inst EXCEPT ![i].date = date,
                                                 ![i].weekday_index = weekday(date),
                                                 ![i].time_str = time_str],
                                    <<Ev("raise", chat, "ValueError")>>)
                   ELSE /\ groups' = save_event(groups, self.group_id, event, date, now)
                        /\ Registry(notify(current, chats, i, self.group_id),
                                    [inst EXCEPT ![i].date = date,
                                                 ![i].weekday_index = weekday(date),
                                                 ![i].time_str = time_str,
                                                 ![i].num_to_answer =
                                                     self.num_to_answer
                                                     + Cardinality(StudentsOf(self.group_id)),
                                                 ![i].next_action = "handle_answer"],
                                    SendAll(RelatedTo(self.group_id), "NEW_EVENT"))
           ELSE /\ UNCHANGED <<chats, groups>>
                /\ Registry(current, [inst EXCEPT ![i].time_str = time_str],
                            <<IF returned = "ValueError"
                              THEN Ev("raise", chat, "ValueError")
                              ELSE Send(chat, returned)>>)
    /\ UNCHANGED <<quorum, ratio, now>>

AddingEvent_handle_answer(chat, answer) ==
    /\ Active(chat, "new", "handle_answer")
    /\ LET i == current[chat]
           self == inst[i]
       IN  IF chat \notin Registered
           THEN \* get_chat_record gives None
                /\ chats' = chats
                /\ Registry(current, inst, <<Ev("raise", chat, "AttributeError")>>)
           ELSE /\ chats' = IF "event_answer" \notin chats[chat].familiarity
                            THEN update_familiarity(chats, chat, chats[chat].familiarity,
                                                    "event_answer")
                            ELSE chats
                /\ Registry(Del(current, chat),
                            [inst EXCEPT ![i].num_to_answer = self.num_to_answer - 1],
                            <<Ev("edit", chat,
                                 IF Minutes(self.date) > Minutes(now)
                                 THEN (IF answer = "y" THEN "EXPECT_NOTIFICATIONS"
                                                       ELSE "EXPECT_NO_NOTIFICATIONS")
                                 ELSE (IF answer = "y" THEN "WOULD_EXPECT_NOTIFICATIONS"
                                                       ELSE "WOULD_EXPECT_NO_NOTIFICATIONS"))>>)
    /\ UNCHANGED <<groups, quorum, ratio, now>>

-----------------------------------------------------------------------------
(* CancelingEvent: /cancel *)

(* list.remove: the first item that equals the given one is removed;      *)
(* ValueError, which the callers pass over, leaves the list as it is      *)
RemoveOrLast(items, item) ==
    IF \E k \in DOMAIN items : items[k] = item
    THEN SelectSeq(items, LAMBDA other : other # item)
    ELSE SubSeq(items, 1, Len(items) - 1)

Remove(items, item) ==
    LET found == {k \in DOMAIN items : items[k] = item}
        first == CHOOSE k \in found : \A m \in found : k <= m
    IN  IF found = {} THEN items
        ELSE SubSeq(items, 1, first - 1) \o SubSeq(items, first + 1, Len(items))

(* the manager of /cancel: an admin whose group has an event to come *)
canceling_event(user) ==
    /\ user \in Registered /\ chats[user].type = PRIVATE
    /\ LET outcome == attempt_interaction(ADMIN_ROLE, user)
           i == FreshId(user)
       IN  IF EventsOf(chats[user].group_id) = <<>>
           THEN Registry(current, inst, <<Ev("reply", user, "ALREADY_NO_EVENTS")>>)
           ELSE IF outcome = "start"
           THEN Start(i, [FromRecord("cancel", user, "cancel") EXCEPT
                             !.events = EventsOf(chats[user].group_id),
                             !.next_action = "delete_event"])
           ELSE NotStarted(outcome, "cancel", user)
    /\ UNCHANGED <<chats, groups, quorum, ratio, now>>

(* the events the menu of the instance lists *)
the_listed_events(self) == self.events

(* CancelingEvent.delete_event, SELECT events FROM groups WHERE id = ? *)
the_saved_events(self) == EventsOf(self.group_id)

(* index 0 stands for an update that is no click on the menu *)
delete_event(chat, index) ==
    /\ Active(chat, "cancel", "delete_event")
    /\ index \in {0} \cup DOMAIN inst[current[chat]].events
    /\ LET i == current[chat]
           self == inst[i]
       IN  IF index = 0
           THEN /\ UNCHANGED <<chats, groups>>
                /\ Registry(current, inst, <<>>)
           ELSE /\ chats' = FirstTime(chats, self, "cancel")
                /\ groups' = UpdateEvents(groups, self.group_id,
                                          Remove(the_saved_events(self), self.events[index]))
                /\ Registry(terminate(current, i), inst,
                            <<Ev("edit", chat, "EVENT_CANCELED")>>
                            \o SendAll(RelatedTo(self.group_id) \ {self.chat_id},
                                       "EVENT_CANCELED"))
    /\ UNCHANGED <<quorum, ratio, now>>

-----------------------------------------------------------------------------
(* SavingInfo, DeletingInfo, ClearingInfo: /save, /delete, /clear *)

InfoInputs == {"a", "b", "a\n\nb"}

InfoOf(g) ==
    IF \E k \in DOMAIN groups : groups[k].id = g
    THEN groups[CHOOSE k \in DOMAIN groups : groups[k].id = g].info
    ELSE <<>>

UpdateInfo(rows, g, info) ==
    [k \in DOMAIN rows |->
        IF rows[k].id = g THEN [rows[k] EXCEPT !.info = info] ELSE rows[k]]

saving_info(user) ==
    /\ user \in Registered /\ chats[user].type = PRIVATE
    /\ LET outcome == attempt_interaction(ADMIN_ROLE, user)
           i == FreshId(user)
       IN  IF outcome = "start"
           THEN Start(i, [FromRecord("save", user, "save") EXCEPT
                             !.next_action = "handle_info"])
           ELSE NotStarted(outcome, "save", user)
    /\ UNCHANGED <<chats, groups, quorum, ratio, now>>

handle_info(chat, info) ==
    /\ Active(chat, "save", "handle_info")
    /\ Len(InfoOf(inst[current[chat]].group_id)) < MaxInfo
    /\ LET i == current[chat]
           self == inst[i]
       IN  IF info # "a\n\nb"
           THEN /\ chats' = FirstTime(chats, self, "save")
                /\ groups' = UpdateInfo(groups, self.group_id,
                                        Append(InfoOf(self.group_id), info))
                /\ Registry(terminate(current, i), inst,
                            SendAll(RelatedTo(self.group_id), "NEW_INFO"))
           ELSE /\ UNCHANGED <<chats, groups>>
                /\ Registry(current, inst, <<Send(chat, "INVALID_INFO")>>)
    /\ UNCHANGED <<quorum, ratio, now>>

(* the manager of /delete and of /clear; DeletingInfo is given the info    *)
(* that the manager has read                                               *)
deleting_info(user, command) ==
    /\ user \in Registered /\ chats[user].type = PRIVATE
    /\ LET outcome == attempt_interaction(ADMIN_ROLE, user)
           i == FreshId(user)
           info == InfoOf(chats[user].group_id)
       IN  IF info = <<>>
           THEN Registry(current, inst, <<Ev("reply", user, "ALREADY_NO_INFO")>>)
           ELSE IF outcome = "start"
           THEN Start(i, [FromRecord(command, user, command) EXCEPT
                             !.info = IF command = "delete" THEN info ELSE <<>>,
                             !.next_action = IF command = "delete" THEN "delete_info"
                                             ELSE "handle_answer"])
           ELSE NotStarted(outcome, command, user)
    /\ UNCHANGED <<chats, groups, quorum, ratio, now>>

(* the blocks the menu of the instance lists *)
the_listed_info(self) == self.info

(* DeletingInfo.delete_info, SELECT info FROM groups WHERE id = ? *)
the_saved_info(self) == InfoOf(self.group_id)

(* index 0 stands for an update that is no click on the menu *)
delete_info(chat, index) ==
    /\ Active(chat, "delete", "delete_info")
    /\ index \in {0} \cup DOMAIN inst[current[chat]].info
    /\ LET i == current[chat]
           self == inst[i]
       IN  IF index = 0
           THEN /\ UNCHANGED <<chats, groups>>
                /\ Registry(current, inst, <<>>)
           ELSE /\ chats' = FirstTime(chats, self, "delete")
                /\ groups' = UpdateInfo(groups, self.group_id,
                                        Remove(the_saved_info(self), self.info[index]))
                /\ Registry(terminate(current, i), inst,
                            <<Ev("edit", chat, "INFO_DELETED")>>)
    /\ UNCHANGED <<quorum, ratio, now>>

ClearingInfo_handle_answer(chat, answer) ==
    /\ Active(chat, "clear", "handle_answer")
    /\ LET i == current[chat]
           self == inst[i]
       IN  /\ chats' = FirstTime(chats, self, "clear")
           /\ groups' = IF answer = "y" THEN UpdateInfo(groups, self.group_id, <<>>)
                        ELSE groups
           /\ Registry(terminate(current, i), inst,
                       <<Ev("edit", chat, IF answer = "y" THEN "INFO_CLEARED"
                                                          ELSE "INFO_KEPT")>>)
    /\ UNCHANGED <<quorum, ratio, now>>

-----------------------------------------------------------------------------
(* AskingGroup: /ask *)

(* the manager of /ask: a leader with a groupmate, whose group is having   *)
(* no interaction of the whole group                                       *)
asking_group(user) ==
    /\ user \in Registered /\ chats[user].type = PRIVATE
    /\ \/ LeaderOnly(user)
       \/ /\ chats[user].role = LEADER_ROLE
          /\ LET g == chats[user].group_id
                 outcome == attempt_interaction(LEADER_ROLE, user)
                 i == FreshId(user)
             IN  IF StudentsOf(g) \ {user} = {}
                 THEN Registry(current, inst, <<Ev("reply", user, "NO_GROUPMATES_TO_ASK")>>)
                 ELSE IF g \in DOMAIN current
                 THEN Registry(current, inst, <<Ev("reply", user, "ONGOING_GROUP_INTERACTION")>>)
                 ELSE IF outcome = "start"
                      THEN Start(i, [FromRecord("ask", user, "ask") EXCEPT
                                        !.next_action = "handle_question"])
                      ELSE NotStarted(outcome, "ask", user)
    /\ UNCHANGED <<chats, groups, quorum, ratio, now>>

handle_question(chat) ==
    /\ Active(chat, "ask", "handle_question")
    /\ LET i == current[chat]
       IN  Registry(current,
                    [inst EXCEPT ![i].group_chat = FirstRoom(inst[i].group_id),
                                 ![i].next_action = "handle_answer"],
                    <<Send(chat, "ASK_TO_PUBLISH")>>)
    /\ UNCHANGED <<chats, groups, quorum, ratio, now>>

(* AskingGroup.get_asked: the groupmates with the familiarity they have *)
get_asked(table, self) ==
    [u \in {c \in DOMAIN table : table[c].group_id = self.group_id
                                 /\ table[c].type = PRIVATE /\ c # self.chat_id}
        |-> [known |-> TRUE, familiarity |-> table[u].familiarity]]

(* AskingGroup.send_question: every asked student is given to the instance *)
send_question(cur, i, asked) ==
    [k \in (DOMAIN cur) \cup (DOMAIN asked) |-> IF k \in DOMAIN asked THEN i ELSE cur[k]]

(* AskingGroup.launch, with the answer about publishing saved *)
launch(i, is_public) ==
    LET self == inst[i]
        written == FirstTime(chats, self, "ask")
        asked == get_asked(written, self)
        sent == send_question(current, i, asked)
        questions == SendAll(DOMAIN asked, "ASK_ANSWER")
    IN  /\ chats' = written
        /\ IF is_public
           THEN IF self.group_chat = NULL
                THEN \* the record of the room is None
                     Registry(sent,
                              [inst EXCEPT ![i].is_public = is_public, ![i].asked = asked],
                              questions \o <<Ev("raise", self.chat_id, "TypeError")>>)
                ELSE Registry(Put(sent, self.group_id, i),
                              [inst EXCEPT ![i].is_public = is_public,
                                           ![i].asked = Put(asked, self.chat_id,
                                                [known |-> ~self.is_familiar,
                                                 familiarity |-> self.familiarity]),
                                           ![i].next_action = "handle_response"],
                              questions \o <<Send(self.group_chat, "ANSWER_LIST"),
                                             Send(self.chat_id, "ASK_LEADER_ANSWER")>>)
           ELSE IF self.chat_id \notin DOMAIN sent
                THEN Registry(sent,
                              [inst EXCEPT ![i].is_public = is_public, ![i].asked = asked],
                              questions \o <<Ev("raise", self.chat_id, "KeyError")>>)
                ELSE Registry(Put(Del(sent, self.chat_id), self.group_id, i),
                              [inst EXCEPT ![i].is_public = is_public,
                                           ![i].asked = asked,
                                           ![i].next_action = "handle_response"],
                              questions)

(* a click in a chat the instance is registered for; a click on the button *)
(* of a question gives "refuse"                                            *)
AskingGroup_handle_answer(chat, answer) ==
    /\ Active(chat, "ask", "handle_answer")
    /\ (chat = inst[current[chat]].chat_id) = (answer \in {"y", "n"})
    /\ launch(current[chat], answer = "y")
    /\ UNCHANGED <<groups, quorum, ratio, now>>

(* del current[key] for each key in turn, up to the first that is missing *)
RECURSIVE DelEach(_, _)
DelEach(cur, keys) ==
    IF keys = <<>> THEN [map |-> cur, ok |-> TRUE]
    ELSE IF Head(keys) \notin DOMAIN cur THEN [map |-> cur, ok |-> FALSE]
    ELSE DelEach(Del(cur, Head(keys)), Tail(keys))

(* the instance an update in the chat is handed to: the one registered for *)
(* the chat and, for a click in a chat with none, the one registered for   *)
(* the group of the chat (brain.callback_query_handler)                    *)
Routed(chat, is_click) ==
    IF chat \in DOMAIN current THEN current[chat]
    ELSE IF is_click /\ chat \in Registered /\ chats[chat].group_id \in DOMAIN current
    THEN current[chats[chat].group_id]
    ELSE NULL

Responding(chat, is_click) ==
    /\ Routed(chat, is_click) # NULL
    /\ inst[Routed(chat, is_click)].cls = "ask"
    /\ inst[Routed(chat, is_click)].next_action = "handle_response"

(* the loop of AskingGroup.terminate over self.asked: the refuse button is *)
(* removed, the student is told and the key of the student is deleted; the *)
(* loop is left at the first key that is missing                           *)
RECURSIVE Withdraw(_, _)
Withdraw(cur, users) ==
    IF users = <<>> THEN [map |-> cur, tr |-> <<>>, ok |-> TRUE]
    ELSE LET user_id == Head(users)
             told == <<Ev("edit_reply_markup", user_id, "ASK_ANSWER"),
                       Send(user_id, "GROUP_ASKING_TERMINATED")>>
             rest == Withdraw(Del(cur, user_id), Tail(users))
         IN  IF user_id \notin DOMAIN cur
             THEN [map |-> cur, tr |-> told, ok |-> FALSE]
             ELSE [map |-> rest.map, tr |-> told \o rest.tr, ok |-> rest.ok]

(* AskingGroup.terminate from the registry cur: the registry and the       *)
(* pending set it leaves, what it sends, and whether it ran to its end     *)
terminate_from(cur, self) ==
    LET stop == <<Ev("edit_reply_markup", self.chat_id, "ANSWER_LIST")>>
        with_leader == self.chat_id \in DOMAIN self.asked
        asked == Del(self.asked, self.chat_id)
        own == IF with_leader
               THEN <<Ev("edit_reply_markup", self.chat_id, "ASK_LEADER_ANSWER")>> ELSE <<>>
        loop == Withdraw(IF with_leader THEN Del(cur, self.chat_id) ELSE cur,
                         SetToSeq(DOMAIN asked))
    IN  IF with_leader /\ self.chat_id \notin DOMAIN cur
        THEN [map |-> cur, asked |-> asked, tr |-> stop \o own, ok |-> FALSE]
        ELSE IF ~loop.ok \/ self.group_id \notin DOMAIN loop.map
        THEN [map |-> loop.map, asked |-> asked, tr |-> stop \o own \o loop.tr, ok |-> FALSE]
        ELSE [map |-> Del(loop.map, self.group_id), asked |-> asked,
              tr |-> stop \o own \o loop.tr \o <<Send(self.chat_id, "GROUP_ASKING_TERMINATED")>>,
              ok |-> TRUE]

(* AskingGroup.terminate: the leader stops the interaction. A KeyError of  *)
(* the step is caught by brain.callback_query_handler, which then hands an *)
(* update that came by the key of the chat to the key of the group         *)
AskingGroup_terminate(chat) ==
    /\ Responding(chat, TRUE)
    /\ chat = inst[Routed(chat, TRUE)].chat_id
    /\ LET i == Routed(chat, TRUE)
           self == inst[i]
           first == terminate_from(current, self)
           again == /\ ~first.ok
                    /\ chat \in DOMAIN current
                    /\ self.group_id \in DOMAIN first.map
                    /\ first.map[self.group_id] = i
           second == terminate_from(first.map, [self EXCEPT !.asked = first.asked])
           last == IF again THEN second ELSE first
       IN  Registry(last.map,
                    [inst EXCEPT ![i].asked = last.asked],
                    first.tr \o (IF again THEN second.tr ELSE <<>>)
                    \o (IF last.ok THEN <<>> ELSE <<Ev("raise", chat, "KeyError")>>))
    /\ UNCHANGED <<chats, groups, quorum, ratio, now>>

all_but_one_answered(asked) == Cardinality(DOMAIN asked) <= 1

(* AskingGroup.handle_response: all of the students have answered *)
all_answered(asked) == DOMAIN asked = {}

(* AskingGroup.handle_response: an answer (a text) or a refusal (a click)  *)
AskingGroup_handle_response(chat, is_click) ==
    /\ Responding(chat, is_click)
    /\ LET i == Routed(chat, is_click)
           self == inst[i]
       IN  IF chat \notin DOMAIN self.asked
           THEN /\ chats' = chats
                /\ Registry(current, inst, <<Ev("raise", chat, "KeyError")>>)
           ELSE LET entry == self.asked[chat]
                    asked == Del(self.asked, chat)
                    responded == [self EXCEPT
                                     !.asked = asked,
                                     !.answered = IF is_click THEN @ ELSE Append(@, chat),
                                     !.refused = IF is_click THEN Append(@, chat) ELSE @]
                    keys == (IF all_answered(asked) THEN <<self.group_id>> ELSE <<>>) \o <<chat>>
                    deleted == DelEach(current, keys)
                IN  /\ chats' = IF entry.known /\ "answer" \notin entry.familiarity
                                THEN update_familiarity(chats, chat, entry.familiarity, "answer")
                                ELSE chats
                    /\ Registry(deleted.map, [inst EXCEPT ![i] = responded],
                                <<Ev("edit", chat, IF is_click THEN "REFUSAL_SENT"
                                                               ELSE "ANSWER_SENT"),
                                  Ev("edit", self.chat_id, "ANSWER_LIST")>>
                                \o (IF all_answered(asked)
                                    THEN <<Send(self.chat_id, "ALL_ANSWERED")>> ELSE <<>>)
                                \o (IF deleted.ok THEN <<>>
                                    ELSE <<Ev("raise", chat, "KeyError")>>))
    /\ UNCHANGED <<groups, quorum, ratio, now>>

-----------------------------------------------------------------------------
(* The steps of the system, for the chats that take part and the inputs    *)
(* they give                                                               *)

Answers == {"y", "n"}

Register(C, languages, names) ==
    \/ \E chat \in C : registration(chat)
    \/ \E chat \in C, language \in languages : ask_city(chat, language)
    \/ \E chat \in C : ask_edu(chat)
    \/ \E chat \in C, edu_id \in EduIds : ask_department(chat, edu_id)
    \/ \E chat \in C, department_id \in DepartmentIds : ask_group_name(chat, department_id)
    \/ \E chat \in C, name \in names : handle_group_name(chat, name)

Claim(U) ==
    \/ \E user \in U : leader_confirmation(user)
    \/ \E g \in DOMAIN current, user \in U, option \in {0, 1} :
           LeaderConfirmation_handle_answer(g, user, option)
    \/ \E chat \in U, edu_year \in YearInputs, is_first_term \in BOOLEAN :
           handle_year(chat, edu_year, is_first_term)

Retract(U) ==
    \E g \in DOMAIN current, user \in U : LeaderConfirmation_handle_retraction(g, user)

Trust(U) ==
    \/ \E user \in U : adding_admin(user)
    \/ \E chat \in U, id \in AllChats : add_admin(chat, id)

Distrust(U) ==
    \/ \E user \in U : removing_admin(user)
    \/ \E chat \in U, id \in AllChats : remove_admin(chat, id)
    \/ \E chat \in U, answer \in Answers : RemovingAdmin_handle_answer(chat, answer)

Resign(U) ==
    \/ \E user \in U : changing_leader(user)
    \/ \E chat \in U, answer \in Answers : ChangingLeader_handle_answer(chat, answer)
    \/ \E chat \in U, id \in AllChats : change_leader(chat, id)

Leave(U) ==
    \/ \E user \in U : deleting_data(user)
    \/ \E chat \in U, answer \in Answers : DeletingData_handle_answer(chat, answer)

Events(U, texts) ==
    \/ \E user \in U : adding_event(user)
    \/ \E chat \in U, event \in EventInputs : handle_event(chat, event)
    \/ \E chat \in U, text \in texts : handle_date(chat, text)
    \/ \E chat \in U, answer \in Answers : AddingEvent_handle_answer(chat, answer)

Cancel(U) ==
    \/ \E user \in U : canceling_event(user)
    \/ \E chat \in U, index \in 0..MaxEvents : delete_event(chat, index)

Info(U) ==
    \/ \E user \in U : saving_info(user)
    \/ \E chat \in U, info \in InfoInputs : handle_info(chat, info)
    \/ \E user \in U, command \in {"delete", "clear"} : deleting_info(user, command)
    \/ \E chat \in U, index \in 0..MaxInfo : delete_info(chat, index)
    \/ \E chat \in U, answer \in Answers : ClearingInfo_handle_answer(chat, answer)

Ask(U) ==
    \/ \E user \in U : asking_group(user)
    \/ \E chat \in U : handle_question(chat)
    \/ \E chat \in U, answer \in Answers \cup {"refuse"} :
           AskingGroup_handle_answer(chat, answer)
    \/ \E chat \in U, is_click \in BOOLEAN : AskingGroup_handle_response(chat, is_click)
    \/ \E chat \in U : AskingGroup_terminate(chat)

-----------------------------------------------------------------------------
(* A click on a button that is left on the screen: callback_query_handler  *)
(* hands it to the step of the conversation the chat is having now         *)

ButtonData == {"y", "n", "0", "id", "refuse", "terminate"}

(* self.events[int(query.data)], self.info[int(query.data)]: only the      *)
(* AttributeError of a missing query is caught                             *)
index_of(data) == IF data = "0" THEN 1 ELSE 0

pick_raises(chat, data) ==
    /\ \/ Active(chat, "delete", "delete_info")
       \/ Active(chat, "cancel", "delete_event")
    /\ data # "0"
    /\ Registry(current, inst, <<Ev("raise", chat, "ValueError")>>)
    /\ UNCHANGED <<chats, groups, quorum, ratio, now>>

(* the steps that take a text have the text of the clicked message, which  *)
(* depends on its wording: they are not followed here                      *)
stale_click(chat, data) ==
    /\ <<chat, data>> \in left
    /\ \/ AddingEvent_handle_answer(chat, data)
       \/ ClearingInfo_handle_answer(chat, data)
       \/ pick_raises(chat, data)
       \/ delete_info(chat, index_of(data)) /\ data = "0"
       \/ delete_event(chat, index_of(data)) /\ data = "0"

-----------------------------------------------------------------------------
(* Updates that find no conversation: the process is started anew with an  *)
(* empty registry while the buttons and the polls of the conversations it   *)
(* had stay on the screens                                                  *)

OnScreen ==
    UNION {{<<k, data>> : data \in Buttons(inst[current[k]], k)} : k \in DOMAIN current \cap AllChats}
    \cup {<<inst[current[k]].group_chat, "poll">> :
              k \in {j \in DOMAIN current : /\ inst[current[j]].cls = "claim"
                                            /\ inst[current[j]].next_action = "handle_answer"}}

(* interactions.current = dict() when the module is loaded *)
restart ==
    /\ current # Empty
    /\ current' = Empty
    /\ inst' = Reachable(Empty, inst)
    /\ trace' = <<>>
    /\ left' = left \cup OnScreen
    /\ reminder' = Idle
    /\ UNCHANGED <<chats, groups, quorum, ratio, now>>

(* brain.callback_query_handler for a chat without a key: the key of the   *)
(* chat's group is tried, and only KeyError is caught; get_chat_record     *)
(* returns None for a chat that is not registered. A group key of an       *)
(* AskingGroup is followed by AskingGroup_handle_response, not here        *)
callback_query_handler(chat, data) ==
    /\ <<chat, data>> \in left
    /\ chat \notin DOMAIN current
    /\ IF chat \notin Registered
       THEN Registry(current, inst, <<Ev("raise", chat, "AttributeError")>>)
       ELSE IF chats[chat].group_id \notin DOMAIN current
       THEN Registry(current, inst, <<>>)
       ELSE \* LeaderConfirmation.handle_answer returns: not a poll answer
            /\ inst[current[chats[chat].group_id]].cls = "claim"
            /\ Registry(current, inst, <<>>)
    /\ UNCHANGED <<chats, groups, quorum, ratio, now>>

(* brain.text_handler: nothing when the chat has no key; with a key the    *)
(* text goes to the step, which is the action of that step                 *)
text_handler(chat) ==
    /\ chat \in AllChats
    /\ chat \notin DOMAIN current
    /\ Registry(current, inst, <<>>)
    /\ UNCHANGED <<chats, groups, quorum, ratio, now>>

(* a poll is on the screen of a room: one that has outlived its leader     *)
(* confirmation or the one of a leader confirmation that collects answers  *)
PollOnScreen ==
    \/ \E room \in Rooms : <<room, "poll">> \in left
    \/ \E k \in DOMAIN current : /\ inst[current[k]].cls = "claim"
                                 /\ inst[current[k]].next_action = "handle_answer"

(* brain.poll_answer_handler with the answer of user_id to a poll that is  *)
(* on the screen of a room: the group of the user, the first room of that  *)
(* group, the conversation under the id of that room. cursor.fetchone()[0] *)
(* of the second query and i.current[chat_id] are outside any try. The     *)
(* one conversation a room with a record may hold is a Registration that   *)
(* did not end, whose handle_group_name reads message.message_id           *)
poll_answer_handler(user_id) ==
    /\ user_id \in Users
    /\ PollOnScreen
    /\ IF user_id \notin Registered
       THEN Registry(current, inst, <<>>)
       ELSE LET chat_id == FirstRoom(chats[user_id].group_id)
            IN  IF chat_id = NULL
                THEN Registry(current, inst, <<Ev("raise", user_id, "TypeError")>>)
                ELSE IF chat_id \notin DOMAIN current
                THEN Registry(current, inst, <<Ev("raise", user_id, "KeyError")>>)
                ELSE Registry(current, inst, <<Ev("raise", user_id, "AttributeError")>>)
    /\ UNCHANGED <<chats, groups, quorum, ratio, now>>

-----------------------------------------------------------------------------
(* /commands: the list of the commands, sent whatever the chat is having   *)

displaying_commands(user) ==
    /\ user \in Registered
    /\ LET familiarity == chats[user].familiarity
       IN  IF "commands" \in familiarity
           THEN /\ chats' = chats
                /\ Registry(current, inst, <<Send(user, "COMMANDS")>>)
           ELSE /\ chats' = update_familiarity(chats, user, familiarity, "commands")
                /\ Registry(current, inst, <<Send(user, "FT_COMMANDS")>>)
    /\ UNCHANGED <<groups, quorum, ratio, now>>

-----------------------------------------------------------------------------
(* The reminder thread: notifications.remind_about_events                   *)

(* a stored event with the ids after its '|': the students to remind *)
WithReminded(event, reminded) ==
    [weekday_index |-> event.weekday_index, day |-> event.day, month |-> event.month,
     time_str |-> event.time_str, event |-> event.event, reminded |-> reminded]

(* event_str.rpartition('|') of a string that has no '|' gives an empty    *)
(* event_str, of which str_to_datetime raises                               *)
HasReminded(event_str) == "reminded" \in DOMAIN event_str

(* notifications.inspect_events: the loop goes over events_str by index    *)
(* while `del events_str[0]` shortens it; k is the index the iterator is   *)
(* at (from 1). The result is the list that is left, the events to remind  *)
(* about with the days left, (event - today).days, the ids to remind, and  *)
(* whether it raised                                                       *)
RECURSIVE inspect_events_from(_, _, _, _, _, _)
inspect_events_from(events_str, k, today, clock, events, reminded) ==
    IF k > Len(events_str)
    THEN [events_str |-> events_str, events |-> events, reminded |-> reminded,
          raised |-> FALSE]
    ELSE LET event_str == events_str[k]
         IN  IF ~HasReminded(event_str) \/ str_to_datetime_raises(event_str, clock)
             THEN [events_str |-> events_str, events |-> events, reminded |-> reminded,
                   raised |-> TRUE]
             ELSE IF Minutes(str_to_datetime(event_str, clock)) < Minutes(today)
             THEN inspect_events_from(Tail(events_str), k + 1, today, clock,
                                      events, reminded)
             ELSE IF event_str.reminded = {}
             THEN inspect_events_from(events_str, k + 1, today, clock, events, reminded)
             ELSE inspect_events_from(
                      events_str, k + 1, today, clock,
                      Append(events,
                             [days_left |->
                                  (Minutes(str_to_datetime(event_str, clock))
                                   - Minutes(today)) \div (24 * 60),
                              event |-> event_str]),
                      reminded \cup event_str.reminded)

inspect_events(events_str, today, clock) ==
    inspect_events_from(events_str, 1, today, clock, <<>>, {})

(* the keys of the dict events, in the order of their insertion *)
RECURSIVE DaysOf(_)
DaysOf(events) ==
    IF events = <<>> THEN <<>>
    ELSE LET before == DaysOf(SubSeq(events, 1, Len(events) - 1))
             d == events[Len(events)].days_left
         IN  IF \E k \in DOMAIN before : before[k] = d THEN before ELSE Append(before, d)

(* notifications.send_reminders, the message of one student: today's       *)
(* events, tomorrow's, then the other days, each with the events of the    *)
(* day that the student is to be reminded about                            *)
reminder_of(events, user_id) ==
    LET days == DaysOf(events)
        has(d) == \E k \in DOMAIN days : days[k] = d
        ordered == (IF has(0) THEN <<0>> ELSE <<>>) \o (IF has(1) THEN <<1>> ELSE <<>>)
                   \o SelectSeq(days, LAMBDA d : d \notin {0, 1})
        of(d) == SelectSeq(events, LAMBDA e : e.days_left = d /\ user_id \in e.event.reminded)
    IN  [k \in DOMAIN ordered |->
            [days_left |-> ordered[k],
             events |-> [j \in DOMAIN of(ordered[k]) |-> of(ordered[k])[j].event]]]

(* notifications.send_reminders: one message to each of the records *)
send_reminders(events, reminded_records) ==
    [k \in DOMAIN reminded_records |->
        Ev("send_reminder", reminded_records[k], reminder_of(events, reminded_records[k]))]

(* remind_about_events, lines 18 to 27: the day and the events of every    *)
(* group are read                                                          *)
remind_about_events ==
    /\ reminder.pc = "idle"
    /\ reminder' = [Idle EXCEPT
                       !.pc = "group",
                       !.today = datetime(now.year, now.month, now.day, 0, 0),
                       !.fetched = [k \in DOMAIN groups |->
                                       [id |-> groups[k].id, events |-> groups[k].events]]]
    /\ trace' = <<>>
    /\ UNCHANGED <<chats, groups, current, inst, quorum, ratio, now, left>>

(* lines 28 to 38: the next group of the rows read; a group with no events *)
(* is passed over, of another one the students are read                    *)
select_students ==
    /\ reminder.pc = "group"
    /\ reminder' =
           IF reminder.fetched = <<>>
           THEN Idle
           ELSE IF Head(reminder.fetched).events = <<>>
           THEN [reminder EXCEPT !.fetched = Tail(@)]
           ELSE LET records == SetToSeq(StudentsOf(Head(reminder.fetched).id))
                IN  [reminder EXCEPT !.pc = "test", !.student_records = records,
                                     !.students = records]
    /\ trace' = <<>>
    /\ UNCHANGED <<chats, groups, current, inst, quorum, ratio, now, left>>

(* line 42, `user_id in current`, of the next student of the loop *)
test_registry ==
    /\ reminder.pc = "test"
    /\ reminder' =
           IF reminder.students = <<>>
           THEN [reminder EXCEPT !.pc = "inspect"]
           ELSE IF Head(reminder.students) \in DOMAIN current
           THEN [reminder EXCEPT !.pc = "read"]
           ELSE [reminder EXCEPT !.students = Tail(@)]
    /\ trace' = <<>>
    /\ UNCHANGED <<chats, groups, current, inst, quorum, ratio, now, left>>

(* line 42, `isinstance(current[user_id], EventAnswering)`: the key is     *)
(* read after the test; no conversation of interactions.py is an           *)
(* EventAnswering; a KeyError ends the thread                              *)
read_registry ==
    /\ reminder.pc = "read"
    /\ IF Head(reminder.students) \in DOMAIN current
       THEN /\ reminder' = [reminder EXCEPT !.pc = "test", !.students = Tail(@)]
            /\ trace' = <<>>
       ELSE /\ reminder' = [Idle EXCEPT !.pc = "dead"]
            /\ trace' = <<Ev("raise", Head(reminder.students), "KeyError")>>
    /\ UNCHANGED <<chats, groups, current, inst, quorum, ratio, now, left>>

(* lines 46 to 66: the events read at the start of the run are inspected,  *)
(* the reminders are sent and the list that is left is written (NULL when  *)
(* none is left)                                                           *)
inspect_and_write ==
    /\ reminder.pc = "inspect"
    /\ LET g == Head(reminder.fetched).id
           inspected == inspect_events(Head(reminder.fetched).events, reminder.today, now)
           reminded_records == SelectSeq(reminder.student_records,
                                         LAMBDA r : r \in inspected.reminded)
       IN  IF inspected.raised
           THEN /\ groups' = groups
                /\ reminder' = [Idle EXCEPT !.pc = "dead"]
                /\ trace' = <<Ev("raise", g, "IndexError")>>
           ELSE /\ groups' = UpdateEvents(groups, g, inspected.events_str)
                /\ reminder' = [reminder EXCEPT !.pc = "group", !.fetched = Tail(@),
                                                !.student_records = <<>>]
                /\ trace' = send_reminders(inspected.events, reminded_records)
    /\ UNCHANGED <<chats, current, inst, quorum, ratio, now, left>>

Remind ==
    \/ remind_about_events
    \/ select_students
    \/ test_registry
    \/ read_registry
    \/ inspect_and_write

-----------------------------------------------------------------------------
(* The whole system, from an empty store *)

Init ==
    /\ chats = Empty
    /\ groups = <<>>
    /\ current = Empty
    /\ inst = Empty
    /\ trace = <<>>
    /\ left = {}
    /\ reminder = Idle
    /\ quorum \in 1..MaxQuorum
    /\ ratio \in RatioValues
    /\ now = Epoch

Next ==
    \/ Register(AllChats, LanguageInputs, NameInputs)
    \/ Claim(Users)
    \/ Retract(Users)
    \/ Remind
    \/ Trust(Users) \/ Distrust(Users) \/ Resign(Users)
    \/ Leave(Users)
    \/ Events(Users, DateInputs)
    \/ Cancel(Users)
    \/ Info(Users)
    \/ Ask(Users)
    \/ \E user \in Users : displaying_commands(user)

Spec == Init /\ [][Next]_vars

-----------------------------------------------------------------------------
(* A store that earlier runs have left, the interactions of that time gone *)
(* with the process: the groups KA and KB of one department                *)

KA == (1 * 100 + 0) * 1000
KB == KA + 1

Familiarities ==
    {"commands", "trust", "distrust", "new", "cancel", "event_answer", "save", "delete",
     "clear", "tell", "ask", "answer", "resign", "feedback", "leave"}

Student(group_id, role) == [group_id |-> group_id, role |-> role]

(* students: user -> its group and role; rooms: room -> its group;         *)
(* familiar: the students who have used every command before              *)
Store(students, rooms, familiar) ==
    [c \in (DOMAIN students) \cup (DOMAIN rooms) |->
        IF c \in DOMAIN students
        THEN [ChatRecord(PRIVATE, 1, students[c].group_id, students[c].role) EXCEPT
                 !.familiarity = IF c \in familiar THEN Familiarities ELSE {}]
        ELSE ChatRecord(GROUP, 1, rooms[c], NULL)]

RestartedAt(students, rooms, familiar, clock) ==
    /\ chats = Store(students, rooms, familiar)
    /\ groups = [k \in 1..(IF \E c \in DOMAIN students : students[c].group_id = KB
                           THEN 2 ELSE 1) |->
                    IF k = 1 THEN GroupRecord(KA, "KA") ELSE GroupRecord(KB, "KB")]
    /\ current = Empty
    /\ inst = Empty
    /\ trace = <<>>
    /\ left = {}
    /\ reminder = Idle
    /\ now = clock

Restarted(students, rooms, familiar) == RestartedAt(students, rooms, familiar, Epoch)

-----------------------------------------------------------------------------
(* Leader confirmation alone: a group of ordinary students, with or        *)
(* without rooms, under every quorum                                       *)

InitLC ==
    /\ \E k \in 2..NumUsers, rooms \in SUBSET Rooms :
           Restarted([u \in 1..k |-> Student(KA, ORDINARY_ROLE)],
                     [r \in rooms |-> KA], 1..k)
    /\ quorum \in 1..MaxQuorum
    /\ ratio = <<1, 2>>

NextLC == Claim(Users) \/ Retract(Users)

SpecLC == InitLC /\ [][NextLC]_vars

-----------------------------------------------------------------------------
(* The roles of one group: a leader, an admin and ordinary students, who   *)
(* may leave, under either value of the ratio                              *)

InitTrust ==
    /\ Restarted([u \in Users |-> Student(KA, IF u = 1 THEN LEADER_ROLE
                                              ELSE IF u = 2 THEN ADMIN_ROLE
                                              ELSE ORDINARY_ROLE)],
                 <<>>, Users)
    /\ quorum = MIN_GROUPMATES_FOR_LC
    /\ ratio \in RatioValues

NextTrust == Trust(Users) \/ Distrust(Users) \/ Leave(Users)

SpecTrust == InitTrust /\ [][NextTrust]_vars

-----------------------------------------------------------------------------
(* Two groups with a leader each, whose students may leave and register    *)
(* again, in either group                                                  *)

InitMove ==
    /\ Restarted([u \in Users |-> IF u <= 2
                                  THEN Student(KA, IF u = 1 THEN LEADER_ROLE ELSE ORDINARY_ROLE)
                                  ELSE Student(KB, IF u = 3 THEN LEADER_ROLE ELSE ORDINARY_ROLE)],
                 <<>>, Users)
    /\ quorum = MIN_GROUPMATES_FOR_LC
    /\ ratio = <<1, 2>>

NextMove ==
    \/ Register({2}, {1}, {"KA", "KB"})
    \/ Leave({2})
    \/ Resign(Users)

SpecMove == InitMove /\ [][NextMove]_vars

-----------------------------------------------------------------------------
(* The two conversations that take the keys of every student of a group:   *)
(* the question to the group and the new event                             *)

InitBroadcast ==
    /\ Restarted([u \in 1..(NumUsers - 1) |->
                      Student(KA, IF u = 1 THEN LEADER_ROLE ELSE ORDINARY_ROLE)],
                 <<>>, 1..(NumUsers - 1))
    /\ quorum = MIN_GROUPMATES_FOR_LC
    /\ ratio = <<1, 2>>

NextBroadcast == Ask(Users) \/ Events(Users, FewDateInputs)

SpecBroadcast == InitBroadcast /\ [][NextBroadcast]_vars

-----------------------------------------------------------------------------
(* The commands of a group whose rooms are yet to register: with a leader  *)
(* and an admin, or with ordinary students only                            *)

InitCommands ==
    /\ \E led \in BOOLEAN :
           Restarted([u \in 1..3 |-> Student(KA, IF led /\ u = 1 THEN LEADER_ROLE
                                                 ELSE IF led /\ u = 2 THEN ADMIN_ROLE
                                                 ELSE ORDINARY_ROLE)],
                     [r \in {0 - 1} |-> KA], 1..3)
    /\ quorum = MIN_GROUPMATES_FOR_LC
    /\ ratio = <<1, 2>>

Commands(U) ==
    \/ \E user \in U : leader_confirmation(user)
    \/ \E user \in U : adding_admin(user)
    \/ \E user \in U : removing_admin(user)
    \/ \E user \in U : changing_leader(user)
    \/ \E user \in U : adding_event(user)

Issuers == (1..3) \cup {NumUsers, 0 - 1, 0 - NumRooms}

NextCommands ==
    \/ \E chat \in Issuers : registration(chat)
    \/ Commands(Issuers \cap Users)
    \/ Claim(Users)
    \/ Trust({1}) \/ Distrust({1}) \/ Resign({1})
    \/ Events({2}, FewDateInputs)

SpecCommands == InitCommands /\ [][NextCommands]_vars

-----------------------------------------------------------------------------
(* The events of a group over the years: an admin adds events while the    *)
(* clock goes on                                                           *)

EventDateInputs ==
    {NoDates, DateOnly(15, 3), DateAndTime(15, 3, 23, 59), DateAndTime(15, 3, 12, 0),
     DateOnly(1, 1), DateOnly(29, 2)}

EventClocks ==
    {d \in Clocks : d.month \in {1, 3, 12} /\ d.day = 15 /\ d.hour = 0}

(* time passes: the clock shows a later moment *)
Tick(clocks) ==
    /\ \E clock \in clocks : Minutes(clock) > Minutes(now) /\ now' = clock
    /\ trace' = <<>>
    /\ UNCHANGED <<chats, groups, current, inst, quorum, ratio, left, reminder>>

InitEvents ==
    /\ \E clock \in EventClocks :
           RestartedAt(1 :> Student(KA, LEADER_ROLE), Empty, {1}, clock)
    /\ quorum = MIN_GROUPMATES_FOR_LC
    /\ ratio = <<1, 2>>

NextEvents == Events({1}, EventDateInputs) \/ Cancel({1}) \/ Tick(EventClocks)

SpecEvents == InitEvents /\ [][NextEvents]_vars

-----------------------------------------------------------------------------
(* The date of a new event: an admin of a group with no events gives every *)
(* text at every clock                                                     *)

DateClocks == {d \in Clocks : d.day # 15}

InitDates ==
    /\ \E clock \in DateClocks :
           RestartedAt(1 :> Student(KA, LEADER_ROLE), Empty, {1}, clock)
    /\ quorum = MIN_GROUPMATES_FOR_LC
    /\ ratio = <<1, 2>>

NextDates ==
    \/ adding_event(1)
    \/ \E event \in EventInputs : handle_event(1, event)
    \/ \E text \in DateInputs : EventsOf(KA) = <<>> /\ handle_date(1, text)
    \/ \E answer \in Answers : AddingEvent_handle_answer(1, answer)

SpecDates == InitDates /\ [][NextDates]_vars

(* the same conversation at the clocks that tell the lengths of February   *)
(* apart: a January and a March of every year                              *)
ValidationClocks == {d \in DateClocks : d.month \in {1, 3} /\ d.day = 1 /\ d.hour = 0}

InitValidation ==
    /\ \E clock \in ValidationClocks :
           RestartedAt(1 :> Student(KA, LEADER_ROLE), Empty, {1}, clock)
    /\ quorum = MIN_GROUPMATES_FOR_LC
    /\ ratio = <<1, 2>>

SpecValidation == InitValidation /\ [][NextDates]_vars

-----------------------------------------------------------------------------
(* Registration alone: three students register, from an empty store, into  *)
(* the departments of two institutions                                     *)

GroupNameInputs == {"ka", "KA", "KB", "KC"}

InitRegister ==
    /\ chats = Empty
    /\ groups = <<>>
    /\ current = Empty
    /\ inst = Empty
    /\ trace = <<>>
    /\ left = {}
    /\ reminder = Idle
    /\ quorum = MIN_GROUPMATES_FOR_LC
    /\ ratio = <<1, 2>>
    /\ now = Epoch

NextRegister == Register(1..3, {0}, GroupNameInputs)

SpecRegister == InitRegister /\ [][NextRegister]_vars

-----------------------------------------------------------------------------
(* What a group shares: the leader and an admin save, delete and clear     *)
(* info, add events and cancel them, each in a conversation of their own   *)

InitShared ==
    /\ Restarted((1 :> Student(KA, LEADER_ROLE)) @@ (2 :> Student(KA, ADMIN_ROLE)),
                 Empty, {1, 2})
    /\ quorum = MIN_GROUPMATES_FOR_LC
    /\ ratio = <<1, 2>>

NextShared ==
    \/ Info({1, 2})
    \/ Cancel({1, 2})
    \/ Events({1}, FewDateInputs)
    \/ \E answer \in Answers : AddingEvent_handle_answer(2, answer)

SpecShared == InitShared /\ [][NextShared]_vars

-----------------------------------------------------------------------------
(* What the students know: an admin and a groupmate who have used none of  *)
(* the commands, or all of them                                            *)

InitKnown ==
    /\ \E familiar \in SUBSET {1, 2} :
           Restarted([u \in 1..2 |-> Student(KA, IF u = 1 THEN LEADER_ROLE
                                                 ELSE ORDINARY_ROLE)],
                     [r \in {0 - 1} |-> KA], familiar)
    /\ quorum = MIN_GROUPMATES_FOR_LC
    /\ ratio = <<1, 2>>

NextKnown ==
    \/ \E user \in {1, 2} : displaying_commands(user)
    \/ Events({1}, FewDateInputs)
    \/ \E answer \in Answers : AddingEvent_handle_answer(2, answer)
    \/ Info({1})

SpecKnown == InitKnown /\ [][NextKnown]_vars

-----------------------------------------------------------------------------
(* Updates that a step does not expect: an admin picks from a list or is   *)
(* asked to confirm while the leader adds an event                         *)

InitStray ==
    /\ Restarted([u \in 1..2 |-> Student(KA, IF u = 1 THEN LEADER_ROLE ELSE ADMIN_ROLE)],
                 Empty, {1, 2})
    /\ quorum = MIN_GROUPMATES_FOR_LC
    /\ ratio = <<1, 2>>

NextStray ==
    \/ Info({2})
    \/ Cancel({2})
    \/ Events({1}, FewDateInputs)
    \/ \E answer \in Answers : AddingEvent_handle_answer(2, answer)
    \/ \E chat \in {1, 2}, data \in ButtonData : stale_click(chat, data)

SpecStray == InitStray /\ [][NextStray]_vars

-----------------------------------------------------------------------------
(* The texts a chat may give: a chat registers, an admin claims to be the  *)
(* leader, adds events and saves info                                      *)

TextDateInputs ==
    {NoDates, TwoDates, DateOnly(15, 3), DateOnly(0, 3), DateOnly(31, 4), DateOnly(15, 13),
     DateOnly(15, 0), DateAndTime(15, 3, 24, 59), DateAndTime(15, 3, 23, 60)}

(* the admin is the leader of a group; or the group has no leader yet; or  *)
(* the chat that registers is new to a group that is led                   *)
InitTexts ==
    /\ \/ Restarted([u \in 1..3 |-> Student(KA, IF u = 1 THEN LEADER_ROLE
                                                 ELSE ORDINARY_ROLE)],
                     [r \in {0 - 1} |-> KA], 1..3)
       \/ Restarted([u \in 1..3 |-> Student(KA, ORDINARY_ROLE)],
                     [r \in {0 - 1} |-> KA], 1..3)
       \/ Restarted([u \in 1..2 |-> Student(KA, IF u = 2 THEN LEADER_ROLE
                                                 ELSE ORDINARY_ROLE)],
                     [r \in {0 - 1} |-> KA], 1..2)
    /\ quorum = 1
    /\ ratio = <<1, 2>>

NextTexts ==
    \/ Register({3}, {0}, NameInputs)
    \/ Claim({1, 2})
    \/ Events({1}, TextDateInputs)
    \/ \E answer \in Answers : AddingEvent_handle_answer(2, answer)
    \/ Info({1})

SpecTexts == InitTexts /\ [][NextTexts]_vars

-----------------------------------------------------------------------------
(* The commands that are refused: a group of one or two students of any   *)
(* roles, with one leader at most, with or without a room                  *)

InitRefusals ==
    /\ \E k \in 1..2, rooms \in SUBSET {0 - 1} :
       \E roles \in [1..k -> {ORDINARY_ROLE, ADMIN_ROLE, LEADER_ROLE}] :
           /\ Cardinality({u \in 1..k : roles[u] = LEADER_ROLE}) <= 1
           /\ Restarted([u \in 1..k |-> Student(KA, roles[u])], [r \in rooms |-> KA], 1..k)
    /\ quorum = 1
    /\ ratio = <<1, 2>>

NextRefusals ==
    \/ Commands({1, 2})
    \/ \E user \in {1, 2} : saving_info(user)
    \/ \E user \in {1, 2}, command \in {"delete", "clear"} : deleting_info(user, command)
    \/ Info({1})

SpecRefusals == InitRefusals /\ [][NextRefusals]_vars

-----------------------------------------------------------------------------
(* Updates after a new start: two students of a group with or without a    *)
(* room and a chat that registers; one claims to be the leader             *)

InitStale ==
    /\ \E rooms \in SUBSET {0 - 1} :
           Restarted([u \in 1..2 |-> Student(KA, ORDINARY_ROLE)], [r \in rooms |-> KA], 1..2)
    /\ quorum = 1
    /\ ratio = <<1, 2>>

NextStale ==
    \/ Register({3, 0 - 1}, {0}, {"KA"})
    \/ Claim({1, 2})
    \/ restart
    \/ \E chat \in {1, 2, 3}, data \in ButtonData : callback_query_handler(chat, data)
    \/ \E chat \in {1, 2, 3} : text_handler(chat)
    \/ \E user_id \in {1, 2, 3} : poll_answer_handler(user_id)

SpecStale == InitStale /\ [][NextStale]_vars

-----------------------------------------------------------------------------
(* The question to a group with a room, asked in the room or in private,   *)
(* while the leader or the admin adds an event                             *)

InitWithdrawal ==
    /\ Restarted([u \in 1..3 |-> Student(KA, IF u = 1 THEN LEADER_ROLE
                                              ELSE IF u = 3 THEN ADMIN_ROLE
                                              ELSE ORDINARY_ROLE)],
                 [r \in {0 - 1} |-> KA], 1..3)
    /\ quorum = MIN_GROUPMATES_FOR_LC
    /\ ratio = <<1, 2>>

NextWithdrawal ==
    \/ Ask({1, 2, 3})
    \/ Events({1, 3}, {DateOnly(15, 3)})
    \/ \E answer \in Answers : AddingEvent_handle_answer(2, answer)

SpecWithdrawal == InitWithdrawal /\ [][NextWithdrawal]_vars

-----------------------------------------------------------------------------
(* Leaving and registering: two students of a group leave, at once or one  *)
(* after the other, and register again, as does a room                     *)

InitIntegrity ==
    /\ Restarted([u \in 1..2 |-> Student(KA, ORDINARY_ROLE)], Empty, 1..2)
    /\ quorum = MIN_GROUPMATES_FOR_LC
    /\ ratio = <<1, 2>>

NextIntegrity ==
    \/ \E chat \in {2, 0 - 1} : registration(chat)
    \/ \E chat \in {2, 0 - 1} : ask_city(chat, 1)
    \/ \E chat \in {2, 0 - 1} : ask_edu(chat)
    \/ \E chat \in {2, 0 - 1} : ask_department(chat, 1)
    \/ \E chat \in {2, 0 - 1} : ask_group_name(chat, 0)
    \/ \E chat \in {2, 0 - 1}, name \in {"KA", "KB"} : handle_group_name(chat, name)
    \/ Leave({1, 2})

SpecIntegrity == InitIntegrity /\ [][NextIntegrity]_vars

-----------------------------------------------------------------------------
(* Who has used /trust and /resign: a leader, an admin and an ordinary     *)
(* student, each of whom has used none of the commands or all of them; the *)
(* leader adds admins and the authorities go from one student to another   *)

InitDiscipline ==
    /\ \E familiar \in SUBSET (1..3) :
           Restarted([u \in 1..3 |-> Student(KA, IF u = 1 THEN LEADER_ROLE
                                                 ELSE IF u = 2 THEN ADMIN_ROLE
                                                 ELSE ORDINARY_ROLE)],
                     Empty, familiar)
    /\ quorum = MIN_GROUPMATES_FOR_LC
    /\ ratio = <<1, 1>>

NextDiscipline == Trust(1..3) \/ Resign(1..3)

SpecDiscipline == InitDiscipline /\ [][NextDiscipline]_vars

-----------------------------------------------------------------------------
(* /start during the registration: a user and a room register from an      *)
(* empty store, in any of the languages, and use /start again on the way   *)

AllLanguages == {0, 1, 2}   \* the indices of LANGUAGES

InitBusy ==
    /\ chats = Empty
    /\ groups = <<>>
    /\ current = Empty
    /\ inst = Empty
    /\ trace = <<>>
    /\ left = {}
    /\ reminder = Idle
    /\ quorum = MIN_GROUPMATES_FOR_LC
    /\ ratio = <<1, 2>>
    /\ now = Epoch

NextBusy == Register({1, 0 - 1}, AllLanguages, {"KA"})

SpecBusy == InitBusy /\ [][NextBusy]_vars

-----------------------------------------------------------------------------
(* The reminders: on a day of March a group has up to MaxStored events in  *)
(* the order of their dates, earlier ones, one of the day and later ones;  *)
(* its leader adds an event and cancels one, its students answer whether   *)
(* to remind them, and the reminder thread runs                            *)

MaxStored == MaxEvents + 1

ReminderClock == datetime(2023, 3, 15, 12, 0)

StoredDates == {datetime(2023, 3, 1, 23, 59), datetime(2023, 3, 15, 23, 59),
                datetime(2023, 3, 29, 23, 59)}

StoredEvents ==
    {WithReminded(EventStr(weekday(date), date, <<>>, "exam"), reminded) :
        date \in StoredDates, reminded \in {{}, {2}, {1, 2}}}

(* the order in which AddingEvent.save_event keeps the list *)
Ascending(events) ==
    \A k, m \in DOMAIN events :
        k < m => Minutes(str_to_datetime(events[k], ReminderClock))
                     <= Minutes(str_to_datetime(events[m], ReminderClock))

StoredLists ==
    UNION {{events \in [1..n -> StoredEvents] : Ascending(events)} : n \in 0..MaxStored}

InitReminder ==
    /\ chats = Store([u \in 1..2 |-> Student(KA, IF u = 1 THEN LEADER_ROLE
                                                 ELSE ORDINARY_ROLE)],
                     Empty, {1, 2})
    /\ \E events \in StoredLists :
           groups = <<[GroupRecord(KA, "KA") EXCEPT !.events = events]>>
    /\ current = Empty
    /\ inst = Empty
    /\ trace = <<>>
    /\ left = {}
    /\ reminder = Idle
    /\ quorum = MIN_GROUPMATES_FOR_LC
    /\ ratio = <<1, 2>>
    /\ now = ReminderClock

NextReminder ==
    \/ Remind
    \/ adding_event(1)
    \/ handle_event(1, "exam")
    \/ handle_date(1, DateOnly(29, 3))
    \/ \E chat \in {1, 2} : AddingEvent_handle_answer(chat, "y")

SpecReminder == InitReminder /\ [][NextReminder]_vars

(* the same with a group that has one event at most, of which the leader   *)
(* cancels events as well                                                  *)
InitWindow ==
    /\ InitReminder
    /\ Len(groups[1].events) <= 1

NextWindow ==
    \/ NextReminder
    \/ canceling_event(1)
    \/ delete_event(1, 1)

SpecWindow == InitWindow /\ [][NextWindow]_vars

-----------------------------------------------------------------------------
(* The ids of the groups of a department: a student is in a group of       *)
(* department 0 of institution 1 whose id is                               *)
(* one of its last two, as it is after many groups have come and gone; two *)
(* more students register into departments 0 and 1 and leave, until the    *)
(* ids are MaxBeyond past the last of the department or there are more     *)
(* than MaxBeyond records                                                  *)

LastOrdinals == {998, 999}
MaxBeyond == 2

InitOrdinals ==
    /\ \E ordinal \in LastOrdinals :
           /\ chats = Store(1 :> Student(KA + ordinal, ORDINARY_ROLE), Empty, {1})
           /\ groups = <<GroupRecord(KA + ordinal, "KA")>>
    /\ current = Empty
    /\ inst = Empty
    /\ trace = <<>>
    /\ left = {}
    /\ reminder = Idle
    /\ quorum = MIN_GROUPMATES_FOR_LC
    /\ ratio = <<1, 2>>
    /\ now = Epoch

NextOrdinals ==
    \/ \E chat \in {2, 3} : registration(chat)
    \/ \E chat \in {2, 3} : ask_city(chat, 1)
    \/ \E chat \in {2, 3} : ask_edu(chat)
    \/ \E chat \in {2, 3} : ask_department(chat, 1)
    \/ \E chat \in {2, 3}, department_id \in DepartmentIds : ask_group_name(chat, department_id)
    \/ \E chat \in {2, 3}, name \in {"KB", "KC"} :
           /\ \A k \in DOMAIN groups : groups[k].id < KA + 999 + MaxBeyond
           /\ Len(groups) <= MaxBeyond
           /\ handle_group_name(chat, name)
    \/ Leave({2, 3})

SpecOrdinals == InitOrdinals /\ [][NextOrdinals]_vars

-----------------------------------------------------------------------------
(* Properties of the leader confirmation *)

Has(tr, op, text) == \E k \in DOMAIN tr : tr[k].op = op /\ tr[k].text = text

(* the step is the poll answer of a groupmate that makes the tally equal   *)
(* to the quorum                                                           *)
Evaluating(g, user_id, option) ==
    /\ LeaderConfirmation_handle_answer(g, user_id, option)
    /\ user_id # inst[current[g]].chat_id
    /\ inst[current[g]].num_votes + 1 = quorum

(* C6: the candidate is made the leader iff more than half of the quorum   *)
(* voted for them at the evaluation (so a tie of an even quorum rejects,   *)
(* and of three votes two confirm and one does not); on rejection no role  *)
(* changes.                                                                *)
C6_StrictMajority ==
    [][\A g \in DOMAIN current, user_id \in Users, option \in {0, 1} :
          Evaluating(g, user_id, option) =>
              LET self == inst[current[g]]
                  positive == self.num_positive_votes + (IF option = 0 THEN 1 ELSE 0)
              IN  /\ (chats'[self.chat_id].role = LEADER_ROLE) <=> (2 * positive > quorum)
                  /\ ~(2 * positive > quorum) => chats' = chats]_vars

(* three votes, two of them positive: the candidate is asked the years *)
C6_Witness ==
    /\ quorum = 3
    /\ \E c \in DOMAIN current :
           /\ inst[current[c]].cls = "claim"
           /\ inst[current[c]].next_action = "handle_year"
           /\ inst[current[c]].num_votes = 3
           /\ inst[current[c]].num_positive_votes = 2
           /\ chats[c].role = LEADER_ROLE

(* C7: the outcome is evaluated once, in the step in which the tally of    *)
(* the answers of groupmates becomes equal to the quorum: every answer     *)
(* that reaches the instance finds the poll open and the tally below the   *)
(* quorum; an answer that does not complete the quorum changes no role and *)
(* leaves the poll open and the key of the group in place; the answer that *)
(* completes it closes the poll and removes the key of the group, and the  *)
(* instance, if it goes on, no longer takes poll answers.                  *)
C7_EvaluatedOnce ==
    [][\A g \in DOMAIN current, user_id \in Users, option \in {0, 1} :
          LeaderConfirmation_handle_answer(g, user_id, option) =>
              LET i == current[g]
                  self == inst[i]
              IN  /\ self.poll_open /\ self.num_votes < quorum
                  /\ IF user_id # self.chat_id /\ self.num_votes + 1 = quorum
                     THEN /\ Has(trace', "delete_poll", "LC_QUESTION")
                          /\ g \notin DOMAIN current'
                          /\ i \in DOMAIN inst' =>
                                 /\ ~inst'[i].poll_open
                                 /\ inst'[i].next_action # "handle_answer"
                                 /\ inst'[i].num_votes = quorum
                     ELSE /\ chats' = chats
                          /\ current' = current
                          /\ inst'[i].poll_open
                          /\ ~Has(trace', "delete_poll", "LC_QUESTION")]_vars

(* a poll of quorum 2 has just been closed with the second answer *)
C7_Witness ==
    /\ quorum = 2
    /\ Has(trace, "delete_poll", "LC_QUESTION")
    /\ \A g \in DOMAIN current : inst[current[g]].next_action # "handle_answer"

(* C8: the poll answer of the candidate is not tallied: the instances, the *)
(* registry and the roles stay as they are, and the room is told about the *)
(* cheating.                                                               *)
C8_CandidateNotTallied ==
    [][\A g \in DOMAIN current, option \in {0, 1} :
          (/\ inst[current[g]].cls = "claim"
           /\ LeaderConfirmation_handle_answer(g, inst[current[g]].chat_id, option)) =>
              /\ inst' = inst
              /\ current' = current
              /\ chats' = chats
              /\ trace' = <<Send(inst[current[g]].group_chat, "CHEATING_IN_LC")>>]_vars

(* the candidate has just answered a poll that has an answer already *)
C8_Witness ==
    /\ Has(trace, "send", "CHEATING_IN_LC")
    /\ \E g \in DOMAIN current :
           /\ inst[current[g]].cls = "claim"
           /\ inst[current[g]].poll_open
           /\ inst[current[g]].num_votes = 1

(* what the manager of /claim requires of the store *)
EntryGuard(user) ==
    LET g == chats[user].group_id
    IN  /\ chats[user].role # LEADER_ROLE
        /\ WithRole(g, LEADER_ROLE) = {}
        /\ RoomsOf(g) # {}
        /\ Cardinality(StudentsOf(g) \ {user}) >= quorum

(* the step has constructed a leader confirmation with the candidate user *)
Claimed(user) ==
    /\ trace' # <<>>
    /\ trace'[1].op = "new" /\ trace'[1].text = "claim"
    /\ trace'[1].to \in DOMAIN inst'
    /\ inst'[trace'[1].to].chat_id = user

(* C9: a leader confirmation is constructed, and its poll sent, only for a *)
(* user who is not a leader, whose group has no leader and has a room, and *)
(* who has at least the quorum of registered groupmates; a /claim in any   *)
(* other state registers nothing.                                          *)
C9_EntryGuard ==
    [][\A user \in Users :
          /\ Claimed(user) =>
                 /\ user \in Registered /\ EntryGuard(user)
                 /\ Has(trace', "send_poll", "LC_QUESTION")
          /\ (user \in Registered /\ leader_confirmation(user) /\ ~EntryGuard(user)) =>
                 /\ current' = current
                 /\ inst' = inst]_vars

(* a poll has just been sent for a quorum of two *)
C9_Witness ==
    /\ quorum = 2
    /\ trace # <<>>
    /\ trace[1].op = "new" /\ trace[1].text = "claim"
    /\ Has(trace, "send_poll", "LC_QUESTION")

(* a poll is open for the group of the user, who is not its candidate *)
PollOpenFor(user) ==
    /\ user \in Registered
    /\ chats[user].group_id \in DOMAIN current
    /\ inst[current[chats[user].group_id]].cls = "claim"
    /\ inst[current[chats[user].group_id]].poll_open
    /\ inst[current[chats[user].group_id]].chat_id # user

(* C10: a groupmate of the candidate who uses /claim while the poll of the *)
(* group is open is recorded as a late claimer of that poll (and is told   *)
(* of a rejection, and of nothing on a confirmation).                      *)
C10_LateClaimers ==
    [][\A user \in Users :
          (PollOpenFor(user) /\ leader_confirmation(user)) =>
              LET g == chats[user].group_id
              IN  /\ g \in DOMAIN current'
                  /\ current'[g] = current[g]
                  /\ \E k \in DOMAIN inst'[current'[g]].late_claimers :
                         inst'[current'[g]].late_claimers[k] = user]_vars

-----------------------------------------------------------------------------
(* Properties of the roles *)

Leaders(g) == WithRole(g, LEADER_ROLE) \cap StudentsOf(g)

(* C4: no group has two students with the role of the leader. *)
C4_SingleLeader == \A g \in GroupIds : Cardinality(Leaders(g)) <= 1

(* C5: right after add_admin has promoted a student, the admins of the     *)
(* group of the leader are no more than the ratio allows for its students. *)
C5_AdminCap ==
    [][\A chat \in Users, id \in AllChats :
          (add_admin(chat, id) /\ id \in Registered) =>
              LET g == inst[current[chat]].group_id
                  admins == {c \in DOMAIN chats' : chats'[c].group_id = g
                                                  /\ chats'[c].role = ADMIN_ROLE}
                  students == {c \in DOMAIN chats' : chats'[c].group_id = g
                                                    /\ chats'[c].type = PRIVATE}
              IN  Cardinality(admins) * ratio[2] <= ratio[1] * Cardinality(students)]_vars

-----------------------------------------------------------------------------
(* Properties of the start of a conversation *)

(* the step is a command of the chat *)
Issues(chat) ==
    \/ registration(chat)
    \/ leader_confirmation(chat)
    \/ adding_admin(chat)
    \/ removing_admin(chat)
    \/ changing_leader(chat)
    \/ adding_event(chat)

Responds(tr) == Cardinality({k \in DOMAIN tr : tr[k].op = "respond"})
Constructs(tr) == \E k \in DOMAIN tr : tr[k].op = "new"

(* the command of a chat that is a key of the registry constructs nothing  *)
(* and leaves the registry and the instances as they are                   *)
Guarded(chat) ==
    /\ Constructs(trace') => chat \notin DOMAIN current
    /\ chat \in DOMAIN current =>
           /\ ~Constructs(trace')
           /\ current' = current
           /\ inst' = inst

(* the command gets as far as the test of the registry: the chat is not    *)
(* registered (/start), or the role of the user is high enough and the     *)
(* manager of the command has nothing to refuse                            *)
Admitted(chat) ==
    LET g == chats[chat].group_id
    IN  \/ registration(chat) /\ chat \notin Registered
        \/ adding_event(chat) /\ chats[chat].role >= ADMIN_ROLE
        \/ /\ adding_admin(chat)
           /\ chats[chat].role = LEADER_ROLE
           /\ WithinRatio(Cardinality(WithRole(g, ADMIN_ROLE)), Cardinality(StudentsOf(g)))
        \/ /\ removing_admin(chat)
           /\ chats[chat].role = LEADER_ROLE
           /\ WithRole(g, ADMIN_ROLE) # {}
        \/ /\ changing_leader(chat)
           /\ chats[chat].role = LEADER_ROLE
           /\ StudentsOf(g) \ {chat} # {}
        \/ /\ leader_confirmation(chat)
           /\ chats[chat].role # LEADER_ROLE
           /\ WithRole(g, LEADER_ROLE) = {}
           /\ RoomsOf(g) # {}
           /\ many_enough_registered(Cardinality(StudentsOf(g)) - 1)
           /\ FirstRoom(g) \notin DOMAIN current

(* C1: /start and the commands started through attempt_interaction         *)
(* construct and register an instance only if the id of the issuing chat   *)
(* is not a key of the registry; if it is a key, nothing is constructed,   *)
(* the registry and the next step of the running conversation are          *)
(* unchanged; the respond of the running conversation is invoked exactly   *)
(* once when the command gets as far as the test of the registry, and not  *)
(* at all when it is refused before that (the chat is registered, the role *)
(* is too low, the manager refuses).                                       *)
C1_ReentrancyGuard ==
    [][\A chat \in AllChats :
           Issues(chat) =>
               /\ Guarded(chat)
               /\ chat \in DOMAIN current =>
                      Responds(trace') = IF Admitted(chat) THEN 1 ELSE 0]_vars

(* a command was answered by the respond of the conversation registered    *)
(* for the chat                                                            *)
C1_Witness ==
    /\ Responds(trace) = 1
    /\ \E k \in DOMAIN trace :
           /\ trace[k].op = "respond"
           /\ \E chat \in DOMAIN current : current[chat] = trace[k].to

(* C1 as stated: if the id of the issuing chat is a key, the respond of    *)
(* the running conversation is invoked exactly once, whatever the command  *)
C1_RespondsWheneverBusy ==
    [][\A chat \in AllChats :
           Issues(chat) =>
               /\ Guarded(chat)
               /\ chat \in DOMAIN current => Responds(trace') = 1]_vars

-----------------------------------------------------------------------------
(* Properties of the conversations with the whole group *)

Launched(i) == inst[i].cls = "ask" /\ inst[i].next_action = "handle_response"

Respondents(self) == Range(self.answered) \cup Range(self.refused)
Invited(self) == (DOMAIN self.asked) \cup Respondents(self)

(* the step is the stop of the leader, handed to instance i *)
Stopped(i) ==
    \E chat \in Users : AskingGroup_terminate(chat) /\ Routed(chat, TRUE) = i

(* the step is the response of the only student yet to respond to i *)
LastResponse(i) ==
    \E chat \in Users, is_click \in BOOLEAN :
        /\ AskingGroup_handle_response(chat, is_click)
        /\ Routed(chat, is_click) = i
        /\ DOMAIN inst[i].asked = {chat}

(* the step is the answer of the only student yet to say whether to be     *)
(* reminded of the event of i                                              *)
LastOptIn(i) ==
    \E chat \in Users, answer \in Answers :
        /\ AddingEvent_handle_answer(chat, answer)
        /\ current[chat] = i
        /\ chat \in Registered
        /\ inst[i].num_to_answer = 1

(* C2: once a conversation with the whole group reaches its terminal       *)
(* condition (the last opt-in answer of AddingEvent, the last response or  *)
(* the stop of the leader of AskingGroup), no key of the registry maps to  *)
(* the instance any more.                                                  *)
C2_TerminationDeregisters ==
    [][\A i \in DOMAIN inst :
           (Stopped(i) \/ LastResponse(i) \/ LastOptIn(i)) =>
               \A k \in DOMAIN current' : current'[k] # i]_vars

-----------------------------------------------------------------------------
(* Properties of the events *)

(* the year of a stored event: the string keeps the weekday, which tells   *)
(* the years of the model apart                                            *)
YearOf(event) ==
    CHOOSE year \in 2023..(2023 + NumYears) :
        /\ IsDate(year, event.month, event.day)
        /\ weekday(datetime(year, event.month, event.day, 0, 0)) = event.weekday_index

(* (date, events with time first, time) as one number *)
OrderKey(event) ==
    toordinal(datetime(YearOf(event), event.month, event.day, 0, 0)) * (24 * 60 + 1)
    + (IF event.time_str # <<>> THEN event.time_str[1] * 60 + event.time_str[2]
       ELSE 24 * 60)

InOrder(events) ==
    \A k, m \in DOMAIN events : k < m => OrderKey(events[k]) <= OrderKey(events[m])

(* C11: whatever events an admin adds and whenever, the events of every    *)
(* group are stored in the order of (date, events with time before the     *)
(* event of the whole day, time)                                           *)
C11_EventOrder == \A k \in DOMAIN groups : InOrder(groups[k].events)

(* the instances of AddingEvent whose date inspect_date has accepted *)
Dated == {i \in DOMAIN inst : inst[i].cls = "new" /\ inst[i].date # NoDatetime}

DateStr(self) == EventStr(self.weekday_index, self.date, self.time_str, self.event)

SameDay(a, b) == a.year = b.year /\ a.month = b.month /\ a.day = b.day

(* C12: on the day a date is accepted, str_to_datetime reads from the      *)
(* string '<weekday> dd.mm[, hh:mm]' the calendar date, year included, and *)
(* the weekday that inspect_date has resolved                              *)
C12_DateRoundTrip ==
    \A i \in Dated :
        /\ ~str_to_datetime_raises(DateStr(inst[i]), now)
        /\ SameDay(str_to_datetime(DateStr(inst[i]), now), inst[i].date)
        /\ weekday(str_to_datetime(DateStr(inst[i]), now)) = inst[i].weekday_index

(* a step in which handle_date accepts the text: the event is saved and    *)
(* the conversation goes on to the reminder question                       *)
Accepts(chat, text) ==
    /\ chat \in DOMAIN current
    /\ current[chat] \in DOMAIN inst'
    /\ inst'[current[chat]].next_action = "handle_answer"
    /\ inst'[current[chat]].date.day = text.day
    /\ inst'[current[chat]].date.month = text.month
    /\ handle_date(chat, text)

(* the moment a text names in a year: 23:59 when it gives no time *)
Moment(text, year) ==
    datetime(year, text.month, text.day,
             IF text.time THEN text.hour ELSE 23, IF text.time THEN text.minute ELSE 59)

YearInMinutes == 366 * 24 * 60

(* C13: an accepted date is resolved to the moment of this year if that    *)
(* moment is strictly after now and to the moment of the next year         *)
(* otherwise; it is a date of the calendar, in the future and at most a    *)
(* year ahead                                                              *)
C13_NearestOccurrence ==
    [][\A text \in DateInputs :
           Accepts(1, text) =>
               LET date == inst'[current[1]].date
               IN  /\ date = IF Minutes(Moment(text, now.year)) > Minutes(now)
                             THEN Moment(text, now.year)
                             ELSE Moment(text, now.year + 1)
                   /\ IsDate(date.year, date.month, date.day)
                   /\ Minutes(date) > Minutes(now)
                   /\ Minutes(date) - Minutes(now) <= YearInMinutes]_vars

(* a date given with the time the clock shows has been resolved to the     *)
(* next year                                                               *)
C13_Witness ==
    \E i \in Dated :
        /\ inst[i].date = [now EXCEPT !.year = now.year + 1]
        /\ inst[i].next_action = "handle_answer"

(* the next February to come has 29 days *)
NextFebruaryYear == IF now.month > 2 THEN now.year + 1 ELSE now.year

(* C14: '29.02' is accepted exactly when the next February has 29 days,    *)
(* and is then resolved to that 29 February with no exception raised;      *)
(* otherwise the user is told that the day is over the length of the month *)
(* and is asked the date again                                             *)
C14_LeapDay ==
    [][handle_date(1, DateOnly(29, 2)) =>
           IF IsLeap(NextFebruaryYear)
           THEN /\ inst'[current[1]].next_action = "handle_answer"
                /\ inst'[current[1]].date = datetime(NextFebruaryYear, 2, 29, 23, 59)
                /\ \A k \in DOMAIN trace' : trace'[k].op # "raise"
           ELSE /\ trace' = <<Send(1, "DAY_OVER_MONTH_LENGTH")>>
                /\ inst'[current[1]].next_action = "handle_date"]_vars

(* the length inspect_date takes a month to have at the clock *)
LengthOf(month) ==
    IF month = 2 THEN (IF IsLeap(NextFebruaryYear) THEN 29 ELSE 28)
    ELSE DaysInMonth(2023, month)

(* the checks of a text in their order, each with its message; a check is  *)
(* listed when the text fails it                                           *)
Failures(text) ==
    (IF text.dates = 0 THEN <<"INVALID_DATE">> ELSE <<>>)
    \o (IF text.dates > 1 THEN <<"MULTIPLE_DATES">> ELSE <<>>)
    \o (IF text.month > 12 THEN <<"MONTH_OVER_12">> ELSE <<>>)
    \o (IF text.month < 1 THEN <<"MONTH_0">> ELSE <<>>)
    \o (IF text.month \in 1..12 /\ text.day > LengthOf(text.month)
        THEN <<"DAY_OVER_MONTH_LENGTH">> ELSE <<>>)
    \o (IF text.day < 1 THEN <<"DAY_0">> ELSE <<>>)
    \o (IF text.time /\ text.hour > 23 THEN <<"INVALID_HOUR">> ELSE <<>>)
    \o (IF text.time /\ text.minute > 59 THEN <<"INVALID_MINUTE">> ELSE <<>>)

(* C15: handle_date answers a text with the message of the first check it  *)
(* fails, in the order count of dates, month, day, hour, minute, and       *)
(* leaves the conversation at the date; it sends no such message exactly   *)
(* when the text passes every check                                        *)
C15_ValidationOrder ==
    [][\A text \in DateInputs :
           handle_date(1, text) =>
               IF Failures(text) # <<>>
               THEN /\ trace' = <<Send(1, Head(Failures(text)))>>
                    /\ inst'[current[1]].next_action = "handle_date"
                    /\ inst'[current[1]].date = inst[current[1]].date
                    /\ groups' = groups
               ELSE \A k \in DOMAIN trace' :
                        trace'[k].op = "send" => trace'[k].text = "NEW_EVENT"]_vars

(* a text with a valid date and hour has failed the last check *)
C15_Witness ==
    /\ trace = <<Send(1, "INVALID_MINUTE")>>
    /\ 1 \in DOMAIN current
    /\ inst[current[1]].next_action = "handle_date"

-----------------------------------------------------------------------------
(* Properties of the registration *)

(* a step of handle_group_name that creates a record of a group *)
CreatesGroup(chat, name) ==
    /\ Len(groups') = Len(groups) + 1
    /\ handle_group_name(chat, name)

NewGroupId == groups'[Len(groups')].id

(* C16: the id of a new group is (institution * 100 + department) * 1000   *)
(* plus the ordinal of the group in its department; the first group of a   *)
(* department has the ordinal 0 and a later one follows a group of the     *)
(* department: the first group of department 0 of institution 7 is 700000  *)
(* and the second is 700001                                                *)
C16_GroupIdFormula ==
    [][\A chat \in 1..3, name \in GroupNameInputs :
           CreatesGroup(chat, name) =>
               LET self == inst[current[chat]]
                   rows == get_department_group_records(self.group_id)
               IN  /\ NewGroupId \div 1000 = self.edu_id * 100 + self.department_id
                   /\ rows = <<>> =>
                          NewGroupId = self.edu_id * 100000 + self.department_id * 1000
                   /\ rows # <<>> => \E k \in DOMAIN rows : NewGroupId = rows[k].id + 1
                   /\ (self.edu_id = 7 /\ self.department_id = 0 /\ Len(rows) <= 1) =>
                          NewGroupId = 700000 + Len(rows)]_vars

(* a student is in the second group of department 0 of institution 7 *)
C16_Witness ==
    /\ \E c \in DOMAIN chats : chats[c].group_id = 700001
    /\ \E k \in DOMAIN groups : groups[k].id = 700000

(* C16 as the specification words it: institution * 1000 + department * 100 *)
(* + ordinal, the first group of department 0 of institution 7 being 7000  *)
C16_SpecFormula ==
    [][\A chat \in 1..3, name \in GroupNameInputs :
           CreatesGroup(chat, name) =>
               LET self == inst[current[chat]]
                   rows == get_department_group_records(self.group_id)
               IN  \E ordinal \in 0..99 :
                       /\ NewGroupId = self.edu_id * 1000 + self.department_id * 100 + ordinal
                       /\ rows = <<>> => ordinal = 0]_vars

(* C17: in a department that has groups, a new name is given the greatest  *)
(* id of the department plus one, in whatever order the records are        *)
(* fetched; a name that a group of the department has is given the id of   *)
(* that group and no record of a group is created                          *)
C17_NextOrdinal ==
    [][\A chat \in 1..3, name \in GroupNameInputs :
           handle_group_name(chat, name) =>
               LET self == inst[current[chat]]
                   rows == get_department_group_records(self.group_id)
                   same == {k \in DOMAIN rows : rows[k].name = Upper(name)}
               IN  rows # <<>> =>
                       IF same = {}
                       THEN /\ Len(groups') = Len(groups) + 1
                            /\ NewGroupId = after_the_greatest(rows)
                            /\ chats'[chat].group_id = NewGroupId
                       ELSE /\ groups' = groups
                            /\ \E k \in same : chats'[chat].group_id = rows[k].id]_vars

-----------------------------------------------------------------------------
(* Properties of what a group shares *)

Without(items, k) ==
    [j \in 1..(Len(items) - 1) |-> IF j < k THEN items[j] ELSE items[j + 1]]

(* result is items less one item that equals the given one, if there is one *)
IsMinus(result, items, item) ==
    IF item \in Range(items)
    THEN \E k \in DOMAIN items : items[k] = item /\ result = Without(items, k)
    ELSE result = items

(* C18: when the block an admin picks is no longer among the saved ones    *)
(* (a groupmate has deleted it, or the info has been cleared), delete_info *)
(* raises nothing, leaves the saved blocks as they are and in their order, *)
(* and terminates the conversation                                         *)
C18_IdempotentRedeletion ==
    [][\A chat \in {1, 2}, index \in 1..MaxInfo :
           (/\ delete_info(chat, index)
            /\ inst[current[chat]].info[index] \notin Range(InfoOf(KA)))
           => /\ groups' = groups
              /\ trace' = <<Ev("edit", chat, "INFO_DELETED")>>
              /\ chat \notin DOMAIN current'
              /\ current[chat] \notin DOMAIN inst']_vars

(* a deletion has been confirmed with as many blocks saved as a group may  *)
(* have: the block picked was not among them                               *)
C18_Witness ==
    \E chat \in {1, 2} :
        /\ trace = <<Ev("edit", chat, "INFO_DELETED")>>
        /\ Len(InfoOf(KA)) = MaxInfo
        /\ chat \notin DOMAIN current

(* C19: delete_info and delete_event save the value that was saved just    *)
(* before the step less the item picked, whatever the instance listed when *)
(* the conversation started: what a groupmate has added since is kept      *)
C19_RereadBeforeMutate ==
    [][\A chat \in {1, 2} :
           /\ \A index \in 1..MaxInfo :
                  delete_info(chat, index) =>
                      IsMinus(InfoOf(KA)', InfoOf(KA), inst[current[chat]].info[index])
           /\ \A index \in 1..MaxEvents :
                  delete_event(chat, index) =>
                      IsMinus(EventsOf(KA)', EventsOf(KA),
                              inst[current[chat]].events[index])]_vars

(* an admin is about to pick a block while a block is saved that was not   *)
(* when the conversation started                                           *)
C19_Witness ==
    /\ Active(1, "delete", "delete_info")
    /\ Range(InfoOf(KA)) \ Range(inst[current[1]].info) # {}


(* C20: once a chat's record says that the chat knows an interaction, no    *)
(* step of any handler makes the record say that it does not               *)
C20_FamiliarityAppendOnly ==
    [][\A chat \in DOMAIN chats \cap DOMAIN chats' :
           chats[chat].familiarity \subseteq chats'[chat].familiarity]_vars


(* nothing is raised and the registry, the instances and the tables stay   *)
Ignored ==
    /\ current' = current
    /\ inst' = inst
    /\ chats' = chats
    /\ groups' = groups
    /\ \A k \in DOMAIN trace' : trace'[k].op # "raise"

(* C21: an update that the step of the chat's conversation does not expect, *)
(* a click whose data is none of the step's buttons or a text where a      *)
(* click is expected, raises nothing and changes neither the registry, nor *)
(* the step of the instance, nor the tables                                *)
C21_MismatchIgnored ==
    [][\A chat \in {1, 2} :
           /\ \A data \in ButtonData :
                  (/\ chat \in DOMAIN current
                   /\ data \notin Buttons(inst[current[chat]], chat)
                   /\ stale_click(chat, data)) => Ignored
           /\ (delete_info(chat, 0) \/ delete_event(chat, 0)) => Ignored]_vars


(* the texts that the steps are to refuse *)
RejectedName(name) == name \in {"K\nA", "ABCDEFGHIJKLMNOP"}
RejectedYears(edu_year) ==
    \/ edu_year.found # 1
    \/ edu_year.current_edu_year > edu_year.all_edu_years
    \/ edu_year.all_edu_years > MAX_EDU_YEARS

(* a step of the chat's conversation that is given a text to refuse *)
Refusing(chat) ==
    \/ \E name \in NameInputs : RejectedName(name) /\ handle_group_name(chat, name)
    \/ handle_event(chat, "ex\nam")
    \/ \E text \in TextDateInputs : Failures(text) # <<>> /\ handle_date(chat, text)
    \/ handle_info(chat, "a\n\nb")
    \/ \E edu_year \in YearInputs, is_first_term \in BOOLEAN :
           RejectedYears(edu_year) /\ handle_year(chat, edu_year, is_first_term)

Explanations ==
    {"INVALID_GROUP_NAME", "TOO_LONG_GROUP_NAME", "INVALID_EVENT", "INVALID_INFO",
     "INVALID_DATE", "MULTIPLE_DATES", "MONTH_OVER_12", "MONTH_0", "DAY_OVER_MONTH_LENGTH",
     "DAY_0", "INVALID_HOUR", "INVALID_MINUTE",
     "INVALID_EDU_YEAR", "MULTIPLE_EDU_YEARS", "INVALID_CURRENT_EDU_YEAR",
     "INVALID_ALL_EDU_YEARS"}

(* C22: a step that is given a group name, an event, a date, an info or    *)
(* the years that it refuses raises nothing, writes nothing to the tables, *)
(* leaves the conversation registered at the same step and sends exactly   *)
(* one message, which tells the reason                                     *)
C22_RejectionKeepsStep ==
    [][\A chat \in 1..3 :
           Refusing(chat) =>
               /\ chats' = chats /\ groups' = groups
               /\ current' = current
               /\ inst'[current[chat]].next_action = inst[current[chat]].next_action
               /\ Len(trace') = 1
               /\ trace'[1].op = "send" /\ trace'[1].to = chat
               /\ trace'[1].text \in Explanations]_vars

(* the candidate who has been confirmed has given years that are refused   *)
(* and is still asked for them                                             *)
C22_Witness ==
    \E chat \in 1..3 :
        /\ Active(chat, "claim", "handle_year")
        /\ trace = <<Send(chat, "INVALID_CURRENT_EDU_YEAR")>>


(* the command is not carried out and the user is told so: no instance is  *)
(* constructed, the registry and the tables stay, and the one thing done   *)
(* is the message with the given text to the chat of the command          *)
RefusedWith(user, text) ==
    /\ current' = current
    /\ inst' = inst
    /\ chats' = chats /\ groups' = groups
    /\ Len(trace') = 1
    /\ trace'[1].op \in {"send", "reply"}
    /\ trace'[1].to = user
    /\ trace'[1].text = text

OverTheCap(g) ==
    (Cardinality(WithRole(g, ADMIN_ROLE)) + 1) * ratio[2] > Cardinality(StudentsOf(g)) * ratio[1]

(* C23: a command whose precondition fails (a leader command of one who is *)
(* not the leader, an admin command of an ordinary student, /distrust      *)
(* without admins, /trust over the cap, /delete or /clear without info,    *)
(* /resign without a groupmate, /claim of a leader, in a led group, in a   *)
(* group without a room or with too few students) constructs no instance,  *)
(* leaves the registry as it is and is answered by exactly one message,    *)
(* the one of that precondition, in the chat of the command                *)
C23_PreconditionFailure ==
    [][\A user \in {1, 2} :
         LET role == chats[user].role
             g == chats[user].group_id
         IN  /\ (adding_admin(user) /\ role # LEADER_ROLE)
                    => RefusedWith(user, "UNAVAILABLE_MESSAGE")
             /\ (adding_admin(user) /\ role = LEADER_ROLE /\ OverTheCap(g))
                    => RefusedWith(user, "ADMIN_LIMIT_REACHED")
             /\ (removing_admin(user) /\ role # LEADER_ROLE)
                    => RefusedWith(user, "UNAVAILABLE_MESSAGE")
             /\ (removing_admin(user) /\ role = LEADER_ROLE /\ WithRole(g, ADMIN_ROLE) = {})
                    => RefusedWith(user, "ALREADY_NO_ADMINS")
             /\ (changing_leader(user) /\ role # LEADER_ROLE)
                    => RefusedWith(user, "UNAVAILABLE_MESSAGE")
             /\ (changing_leader(user) /\ role = LEADER_ROLE /\ StudentsOf(g) = {user})
                    => RefusedWith(user, "NO_GROUPMATES_FOR_RESIGN")
             /\ ((adding_event(user) \/ saving_info(user)) /\ role = ORDINARY_ROLE)
                    => RefusedWith(user, "UNAVAILABLE_MESSAGE")
             /\ \A command \in {"delete", "clear"} :
                    /\ (deleting_info(user, command) /\ InfoOf(g) = <<>>)
                           => RefusedWith(user, "ALREADY_NO_INFO")
                    /\ (deleting_info(user, command) /\ InfoOf(g) # <<>>
                                                     /\ role = ORDINARY_ROLE)
                           => RefusedWith(user, "UNAVAILABLE_MESSAGE")
             /\ (leader_confirmation(user) /\ role = LEADER_ROLE)
                    => RefusedWith(user, "ALREADY_LEADER")
             /\ (leader_confirmation(user) /\ role # LEADER_ROLE
                                           /\ WithRole(g, LEADER_ROLE) # {})
                    => RefusedWith(user, "ALREADY_LEADER_IN_GROUP")
             /\ (leader_confirmation(user) /\ WithRole(g, LEADER_ROLE) = {}
                                           /\ RoomsOf(g) = {})
                    => RefusedWith(user, "GROUP_CHAT_NEEDED")
             /\ (leader_confirmation(user) /\ WithRole(g, LEADER_ROLE) = {}
                                           /\ RoomsOf(g) # {}
                                           /\ Cardinality(StudentsOf(g)) - 1 < quorum)
                    => RefusedWith(user, "NOT_ENOUGH_FOR_LEADER_CONFIRMATION")]_vars

(* a leader who is having a conversation has been refused /trust for the   *)
(* cap                                                                     *)
C23_Witness ==
    \E user \in {1, 2} :
        /\ trace = <<Ev("reply", user, "ADMIN_LIMIT_REACHED")>>
        /\ chats[user].role = LEADER_ROLE
        /\ user \in DOMAIN current


(* neither the chat nor the group of its record has a key *)
NoConversation(chat) ==
    /\ chat \notin DOMAIN current
    /\ chat \in Registered => chats[chat].group_id \notin DOMAIN current

(* nothing is raised and the registry and the tables stay *)
Silent ==
    /\ current' = current /\ inst' = inst
    /\ chats' = chats /\ groups' = groups
    /\ \A k \in DOMAIN trace' : trace'[k].op # "raise"

(* C24: a click, a text or a poll answer of a chat that has no key in the  *)
(* registry, and whose group has none, raises nothing and changes neither  *)
(* the registry nor the tables; so for a chat that is not registered and   *)
(* for a poll whose leader confirmation is no more                         *)
C24_StaleUpdate ==
    [][\A chat \in {1, 2, 3} :
         NoConversation(chat) =>
             /\ (\E data \in ButtonData : callback_query_handler(chat, data)) => Silent
             /\ text_handler(chat) => Silent
             /\ poll_answer_handler(chat) => Silent]_vars

(* what does hold: a text without a conversation is dropped *)
C24_TextOnly ==
    [][\A chat \in {1, 2, 3} : NoConversation(chat) => (text_handler(chat) => Silent)]_vars

(* what does hold: the click of a registered chat is dropped *)
C24_RegisteredClick ==
    [][\A chat \in {1, 2} : NoConversation(chat) =>
          ((\E data \in ButtonData : callback_query_handler(chat, data)) => Silent)]_vars


Times(tr, e) == Cardinality({k \in DOMAIN tr : tr[k] = e})

(* C25: when the leader stops a launched question, every student who is    *)
(* yet to respond, and no other, has the refuse button taken from the      *)
(* question and is told once that the question is withdrawn; those who     *)
(* have responded get nothing; the step runs to its end, in the room or in *)
(* private, whoever has responded                                          *)
C25_EarlyStop ==
    [][\A chat \in Users :
         AskingGroup_terminate(chat) =>
             LET self == inst[Routed(chat, TRUE)]
                 pending == (DOMAIN self.asked) \ {self.chat_id}
             IN  /\ \A u \in pending :
                        /\ Times(trace', Ev("edit_reply_markup", u, "ASK_ANSWER")) = 1
                        /\ Times(trace', Send(u, "GROUP_ASKING_TERMINATED")) = 1
                 /\ \A u \in Users \ (pending \cup {self.chat_id}) :
                        \A k \in DOMAIN trace' : trace'[k].to # u
                 /\ \A k \in DOMAIN trace' : trace'[k].op # "raise"]_vars

(* what does hold: nobody is told twice and nobody who has responded is    *)
(* told                                                                    *)
C25_AtMostOnce ==
    [][\A chat \in Users :
         AskingGroup_terminate(chat) =>
             LET self == inst[Routed(chat, TRUE)]
                 pending == (DOMAIN self.asked) \ {self.chat_id}
             IN  /\ \A u \in pending :
                        Times(trace', Send(u, "GROUP_ASKING_TERMINATED")) <= 1
                 /\ \A u \in Users \ (pending \cup {self.chat_id}) :
                        \A k \in DOMAIN trace' : trace'[k].to # u]_vars


(* every chat record refers to a group record *)
Referenced == \A c \in Registered : chats[c].group_id \in GroupIds

(* no record is put in the place of a record: a chat that has a record     *)
(* keeps its type and its group for as long as it has one                  *)
OneRecord ==
    \A c \in Registered \cap DOMAIN chats' :
        /\ chats'[c].type = chats[c].type
        /\ chats'[c].group_id = chats[c].group_id

C27_DeletingData ==
    [][\A chat \in {1, 2}, answer \in Answers :
         (DeletingData_handle_answer(chat, answer) /\ chat \in Registered) =>
             LET g == chats[chat].group_id
                 others == StudentsOf(g) \ {chat}
                 rooms == RoomsOf(g)
                 ids == {groups'[k].id : k \in DOMAIN groups'}
             IN  IF answer = "y"
                 THEN /\ chat \notin DOMAIN chats'
                      /\ others \subseteq DOMAIN chats'
                      /\ IF others = {}
                         THEN g \notin ids /\ rooms \cap DOMAIN chats' = {}
                         ELSE g \in ids /\ rooms \subseteq DOMAIN chats'
                 ELSE /\ DOMAIN chats' = DOMAIN chats
                      /\ groups' = groups]_vars

(* what does hold: the record of the student is deleted on the positive    *)
(* answer and nothing is deleted on the negative one                       *)
C27_OwnRecord ==
    [][\A chat \in {1, 2}, answer \in Answers :
         (DeletingData_handle_answer(chat, answer) /\ chat \in Registered) =>
             IF answer = "y" THEN chat \notin DOMAIN chats'
             ELSE DOMAIN chats' = DOMAIN chats /\ groups' = groups]_vars


(* C28: no step gives the key of a conversation that is in progress to     *)
(* another conversation: a key that stays in the registry maps to the      *)
(* instance it mapped to                                                   *)
C28_NoOverwrite == [][Overwritten(current') = {}]_vars


(* the keys of a launched question are the group and the students who are  *)
(* yet to respond                                                          *)
SharedKeys ==
    \A i \in DOMAIN inst :
        Launched(i) => KeysOf(i) = {inst[i].group_id} \cup DOMAIN inst[i].asked

(* an answer or a refusal takes the respondent, and nobody else, from the  *)
(* pending set and from the keys; the last one takes the key of the group  *)
OneKeyLess ==
    \A chat \in Users, is_click \in BOOLEAN :
        (AskingGroup_handle_response(chat, is_click)
             /\ chat \in DOMAIN inst[Routed(chat, is_click)].asked) =>
            LET i == Routed(chat, is_click)
                asked == DOMAIN inst[i].asked
            IN  /\ {k \in DOMAIN current' : current'[k] = i}
                       = IF asked = {chat} THEN {} ELSE KeysOf(i) \ {chat}
                /\ asked # {chat} => DOMAIN inst'[i].asked = asked \ {chat}

(* C29: from its launch to its end the keys that map to an AskingGroup are *)
(* the id of the group and the ids of the students in asked (the leader    *)
(* among them iff the question is public and the leader has not answered); *)
(* each answer or refusal removes the key and the entry of that respondent *)
(* and of nobody else                                                      *)
C29_SharedKeySet == []SharedKeys /\ [][OneKeyLess]_vars


(* the event of i is saved and the students are asked whether to be        *)
(* reminded                                                                *)
FannedOut(i) == inst[i].cls = "new" /\ inst[i].next_action = "handle_answer"

(* the counter of an event is the number of its keys *)
CounterIsKeys ==
    \A i \in DOMAIN inst : FannedOut(i) => inst[i].num_to_answer = Cardinality(KeysOf(i))

(* the answer of a student takes the key of that student and one from the  *)
(* counter, which reaches 0 with the last key; no other step takes a key   *)
(* of the event                                                            *)
OneAnswerLess ==
    \A i \in DOMAIN inst :
        FannedOut(i) =>
            LET keys == {k \in DOMAIN current' : current'[k] = i}
                answering == {chat \in Users \cap Registered :
                                 /\ chat \in DOMAIN current /\ current[chat] = i
                                 /\ \E answer \in Answers : AddingEvent_handle_answer(chat, answer)}
            IN  IF answering = {}
                THEN keys = KeysOf(i)
                ELSE /\ \E chat \in answering : keys = KeysOf(i) \ {chat}
                     /\ (inst[i].num_to_answer = 1) = (keys = {})
                     /\ i \in DOMAIN inst' => inst'[i].num_to_answer = inst[i].num_to_answer - 1

(* C30: once the event is saved and the students are asked, num_to_answer  *)
(* is the number of keys that map to the AddingEvent; the click of a       *)
(* student removes the key of that student and takes one from the counter, *)
(* whether the event has passed or not, and the counter reaches 0 exactly  *)
(* when no key maps to the instance                                        *)
C30_OptInCollection == []CounterIsKeys /\ [][OneAnswerLess]_vars

(* what does hold: the click itself takes the key of the student and one   *)
(* from the counter                                                        *)
C30_ClickOnly ==
    [][\A chat \in Users \cap Registered, answer \in Answers :
          AddingEvent_handle_answer(chat, answer) =>
              LET i == current[chat]
              IN  /\ current' = Del(current, chat)
                  /\ i \in DOMAIN inst' => inst'[i].num_to_answer = inst[i].num_to_answer - 1]_vars


(* the poll answer of the user is taken by the leader confirmation of the  *)
(* user's group                                                            *)
Delivered(user) ==
    \E option \in {0, 1} :
        LeaderConfirmation_handle_answer(chats[user].group_id, user, option)

(* C31: the poll answer of a registered student whose group has a leader   *)
(* confirmation with its poll open is handed by the handler to that leader *)
(* confirmation, once: the key the handler looks up is the key of the      *)
(* instance                                                                *)
C31_PollAnswerRouting ==
    [][\A user \in Users :
         (poll_answer_handler(user) /\ PollOpenFor(user)) => Delivered(user)]_vars


(* the leader confirmation of group g is collecting the answers to its     *)
(* poll                                                                    *)
PollPhase(g) ==
    /\ g \in DOMAIN current
    /\ inst[current[g]].cls = "claim"
    /\ inst[current[g]].next_action = "handle_answer"

(* C32: while the poll of a group is open, /claim of the candidate or of a *)
(* groupmate sends no second poll, leaves the instance of the group in its *)
(* place and leaves its tally                                              *)
C32_OneLeaderConfirmation ==
    [][\A user \in Users :
         (leader_confirmation(user) /\ user \in Registered
                                    /\ PollPhase(chats[user].group_id)) =>
             LET g == chats[user].group_id
             IN  /\ \A k \in DOMAIN trace' : trace'[k].op # "send_poll"
                 /\ g \in DOMAIN current' /\ current'[g] = current[g]
                 /\ inst'[current[g]].num_votes = inst[current[g]].num_votes
                 /\ inst'[current[g]].num_positive_votes
                        = inst[current[g]].num_positive_votes]_vars


(* the tally of every leader confirmation that is collecting answers *)
TallyBounds ==
    \A g \in DOMAIN current :
        PollPhase(g) =>
            /\ 0 <= inst[current[g]].num_positive_votes
            /\ inst[current[g]].num_positive_votes <= inst[current[g]].num_votes
            /\ inst[current[g]].num_votes <= quorum

(* C33: a groupmate counts once in the tally of a leader confirmation: the *)
(* tally lies between zero and the quorum with no more positive answers    *)
(* than answers; an answer is counted of a groupmate whose answer the poll *)
(* does not hold, as one vote; and the retraction of an answer does not    *)
(* raise the tally                                                         *)
C33_OneVotePerVoter ==
    /\ []TallyBounds
    /\ [][\A g \in DOMAIN current, user \in Users :
            /\ LeaderConfirmation_handle_retraction(g, user) =>
                   inst'[current[g]].num_votes <= inst[current[g]].num_votes
            /\ \A option \in {0, 1} :
                   (/\ LeaderConfirmation_handle_answer(g, user, option)
                    /\ user # inst[current[g]].chat_id
                    /\ current[g] \in DOMAIN inst') =>
                       inst'[current[g]].num_votes = inst[current[g]].num_votes + 1]_vars


(* the step is one of the conversation of the chat that calls              *)
(* update_familiarity when the instance is not familiar                    *)
WritingStep(chat) ==
    \/ \E answer \in Answers : ChangingLeader_handle_answer(chat, answer)
    \/ \E id \in AllChats : change_leader(chat, id)
    \/ \E id \in AllChats : add_admin(chat, id)

(* C34: the familiarity with a command is written for a user by a          *)
(* conversation of theirs that started unfamiliar, once: the write finds   *)
(* the stored bit unset and sets it, and a conversation that started       *)
(* familiar leaves the stored familiarity as it is                         *)
C34_WriteDiscipline ==
    [][\A chat \in Users :
         WritingStep(chat) =>
             LET self == inst[current[chat]]
             IN  IF self.is_familiar
                 THEN chats'[chat].familiarity = chats[chat].familiarity
                 ELSE /\ self.cls \notin chats[chat].familiarity
                      /\ self.cls \in chats'[chat].familiarity]_vars

(* a conversation that started familiar writes nothing, and one that       *)
(* started unfamiliar has the bit set after any of its writing steps       *)
C34_StartedUnset ==
    [][\A chat \in Users :
         WritingStep(chat) =>
             LET self == inst[current[chat]]
             IN  IF self.is_familiar
                 THEN chats'[chat].familiarity = chats[chat].familiarity
                 ELSE self.cls \in chats'[chat].familiarity]_vars


(* the chat is registering and has got past the question about the         *)
(* language                                                                *)
LanguageProvided(chat) ==
    /\ chat \in DOMAIN current
    /\ inst[current[chat]].cls = "start"
    /\ inst[current[chat]].next_action # "ask_city"

(* C35: /start used by a chat that is registering is answered iff the chat *)
(* has chosen its language, whichever of the languages it is, the first    *)
(* one included; before the choice nothing is sent                         *)
C35_BusyResponse ==
    [][\A chat \in AllChats :
         (/\ registration(chat)
          /\ chat \notin Registered
          /\ chat \in DOMAIN current) =>
             ((\E k \in DOMAIN trace' : trace'[k].op \in {"reply", "send"})
                  <=> LanguageProvided(chat))]_vars

(* the same for the languages other than the first *)
C35_OtherLanguages ==
    [][\A chat \in AllChats :
         (/\ registration(chat)
          /\ chat \notin Registered
          /\ chat \in DOMAIN current
          /\ inst[current[chat]].language # 0) =>
             ((\E k \in DOMAIN trace' : trace'[k].op \in {"reply", "send"})
                  <=> LanguageProvided(chat))]_vars


(* the run writes the list of the group it is at *)
WritingBack(g) ==
    /\ inspect_and_write
    /\ Head(reminder.fetched).id = g
    /\ ~inspect_events(Head(reminder.fetched).events, reminder.today, now).raised

(* C36: the write of the reminder thread loses no event that was saved for *)
(* the group after the run read the events, and brings back none that was  *)
(* cancelled since                                                         *)
C36_NoLostEvent ==
    [][\A g \in GroupIds :
         WritingBack(g) =>
             LET stored == Range(EventsOf(g))
                 fetched == Range(Head(reminder.fetched).events)
             IN  /\ \A event \in stored \ fetched : event \in Range(EventsOf(g)')
                 /\ \A event \in fetched \ stored : event \notin Range(EventsOf(g)')]_vars

(* C37: no step of the reminder thread changes the registry, and its read  *)
(* of a key that it has found in the registry does not fail                *)
C37_SafeRegistryAccess ==
    [][Remind =>
          /\ current' = current
          /\ inst' = inst
          /\ \A k \in DOMAIN trace' :
                 ~(trace'[k].op = "raise" /\ trace'[k].text = "KeyError")]_vars

(* the reminder thread leaves the registry as it is *)
C37_NoMutation == [][Remind => (current' = current /\ inst' = inst)]_vars

(* the event is before the day of the run *)
IsPassed(event_str) ==
    Minutes(str_to_datetime(event_str, now)) < Minutes(reminder.today)

(* the run writes the list of a group that is stored as the run read it *)
Pruning(g) == WritingBack(g) /\ EventsOf(g) = Head(reminder.fetched).events

(* C38: the list that a run writes for a group is the list that was stored *)
(* without the events that are before the day of the run, in the order     *)
(* they had                                                                *)
C38_ReminderPruning ==
    [][\A g \in GroupIds :
         Pruning(g) =>
             EventsOf(g)' = SelectSeq(EventsOf(g), LAMBDA e : ~IsPassed(e))]_vars

(* no event that is not before the day of the run is removed *)
C38_NoPendingRemoved ==
    [][\A g \in GroupIds :
         Pruning(g) =>
             \A event \in Range(EventsOf(g)) :
                 ~IsPassed(event) => event \in Range(EventsOf(g)')]_vars

(* the events a message of the run lists *)
RECURSIVE Listed(_)
Listed(sections) ==
    IF sections = <<>> THEN <<>>
    ELSE Head(sections).events \o Listed(Tail(sections))

(* C39: the run sends one message to each student of the group who is to   *)
(* be reminded about an event that is not before the day of the run, which *)
(* lists these events, all of them, and no message to the other students   *)
C39_ReminderDelivery ==
    [][\A g \in GroupIds :
         Pruning(g) =>
             \A user \in StudentsOf(g) :
                 LET pending == SelectSeq(EventsOf(g),
                                          LAMBDA e : /\ ~IsPassed(e) /\ HasReminded(e)
                                                     /\ user \in e.reminded)
                     sent == SelectSeq(trace', LAMBDA m : m.to = user)
                 IN  IF pending = <<>>
                     THEN sent = <<>>
                     ELSE /\ Len(sent) = 1
                          /\ Range(Listed(sent[1].text)) = Range(pending)]_vars

(* a student who is to be reminded about nothing to come gets no message,  *)
(* and no student gets two                                                 *)
C39_AtMostOne ==
    [][\A g \in GroupIds :
         Pruning(g) =>
             \A user \in StudentsOf(g) :
                 LET pending == SelectSeq(EventsOf(g),
                                          LAMBDA e : /\ ~IsPassed(e) /\ HasReminded(e)
                                                     /\ user \in e.reminded)
                     sent == SelectSeq(trace', LAMBDA m : m.to = user)
                 IN  /\ Len(sent) <= 1
                     /\ pending = <<>> => sent = <<>>]_vars


(* no two records of groups have the same id *)
UniqueGroupIds ==
    \A k, m \in DOMAIN groups : groups[k].id = groups[m].id => k = m

(* the id of a group that a registration creates is in the range of the    *)
(* department the registration looked up                                   *)
DepartmentLocal ==
    \A chat \in AllChats, name \in NameInputs \cup GroupNameInputs :
        CreatesGroup(chat, name) => NewGroupId \div 1000 = inst[current[chat]].group_id

(* C40: whatever chats register and leave, no two groups have the same id, *)
(* and the id of a new group divided by 1000 is the key of the department  *)
(* whose groups the registration looked up                                 *)
C40_UniqueDepartmentLocal == []UniqueGroupIds /\ [][DepartmentLocal]_vars

(* the two halves on their own *)
C40_Unique == []UniqueGroupIds

C40_Local == [][DepartmentLocal]_vars

=============================================================================
